---- MODULE Spec2Model ----
(***************************************************************************)
(* Land-cover classification pipeline of lambda_function.py: tile          *)
(* planning (split_boundary_box), tile retrieval with retries              *)
(* (export_sub_polygon_as_png), the concurrent fetch coordinator           *)
(* (process_and_export_image), mosaic composition (merge_images_properly), *)
(* area statistics (calculate_area_statistics) and the analysis branch of  *)
(* lambda_handler.                                                         *)
(*                                                                         *)
(* Arithmetic.  The program computes in binary floating point; the model   *)
(* computes the same expressions in exact rational arithmetic over         *)
(* integers:                                                               *)
(*   - geographic coordinates are integers in tenths of a degree; a        *)
(*     rectangle produced by the grid carries the denominators num_x and   *)
(*     num_y of its coordinates;                                           *)
(*   - kilometres are carried in units of 1/10000 km;                      *)
(*   - math.cos(math.radians(lat_mid)) is tabulated in thousandths;        *)
(*   - areas and percentages are carried in units of 10^-5 (the 5 decimals *)
(*     of round(x, 5)), the ground-truth area in units of 10^-6.           *)
(***************************************************************************)
EXTENDS Integers, Sequences, FiniteSets, TLC

VARIABLES
    pc,                     \* position of the run
    boundary_box,           \* global boundary_box: shapely box of the bbox_* fields
    total_shapely_polygon,  \* global total_shapely_polygon: the parts of city_geometry
    interior_rings,         \* the interior rings (holes) of the parts of total_shapely_polygon
    max_size_km,            \* argument max_size_km of split_boundary_box
    sub_rects,              \* the tile list split_boundary_box returned
    raised,                 \* the exception that ended the run, or "none"
    futures,                \* process_and_export_image: one future per submitted tile
    work_queue,             \* the executor's queue of tile indexes not yet taken
    results,                \* process_and_export_image: the list results
    copy,                   \* the copy of lambda_function.py that runs: "backend" or "lambda"
    canvas,                 \* merge_images_properly: the image merged and what was pasted
    image_file,             \* what process_and_export_image returned
    hist,                   \* the frequency histogram the provider returns: class code -> count
    CORRECT_AREA,           \* global CORRECT_AREA: the area field, in 10^-6 km2
    areas,                  \* calculate_area_statistics: areas, class name -> 10^-5 km2
    stats,                  \* calculate_area_statistics: the stats document written
    provider,               \* what the classification provider answers for the request
    uploaded,               \* the S3 keys lambda_handler uploaded
    response,               \* the response lambda_handler returned
    doc,                    \* the boundary document: the fields it lacks and its area field
    geometry_cache,         \* the lru_cache of shapely_to_ee, least recently used entry first
    protected_cache,        \* the lru_cache of get_protected_areas, least recently used first
    conversions,            \* how many times the body of shapely_to_ee ran
    remote_calls,           \* how many times the body of get_protected_areas ran
    clock,                  \* how many lookups were made
    last_lookup,            \* the last lookup: its function, its key, what it returned
    fresh,                  \* how many distinct geometry texts were looked up
    exercised,              \* the cached function the lookups of the behaviour go to
    repeated                \* whether the behaviour has made its repeated lookup

planVars == <<boundary_box, total_shapely_polygon, interior_rings, max_size_km, sub_rects>>
fetchVars == <<futures, work_queue, results>>
mergeVars == <<canvas, image_file>>
statsVars == <<hist, CORRECT_AREA, areas, stats>>
runVars == <<provider, uploaded, response, doc>>
cacheVars == <<geometry_cache, protected_cache, conversions, remote_calls, clock, last_lookup, fresh,
               exercised, repeated>>

vars == <<pc, raised, copy, planVars, fetchVars, mergeVars, statsVars, runVars, cacheVars>>

(***************************************************************************)
(* Bounds of the model.                                                    *)
(***************************************************************************)
MaxX == 7        \* longitudes 0 .. MaxX tenths of a degree
MaxY == 4        \* latitudes base .. base + MaxY tenths of a degree
MaxFetchX == 6   \* widest box of the fetch runs, in tenths of a degree
MaxCode == 11    \* largest class code a histogram of the model holds
MaxRunX == 4     \* widest box of a whole analysis request, in tenths of a degree
MaxScale == 3    \* largest factor the counts of a histogram are multiplied by
MaxPoolX == 28   \* width of the box of the pool runs, in tenths of a degree
MaxGeometries == 130   \* distinct geometry texts looked up with shapely_to_ee
MaxBoundaries == 34    \* distinct boundaries looked up with get_protected_areas
MaxCanvasX == 12 \* widest box of the canvas runs, in tenths of a degree
MaxCanvasY == 15 \* tallest box of the canvas runs, in tenths of a degree

(***************************************************************************)
(* Helpers of the arithmetic.                                              *)
(***************************************************************************)
Min2(a, b) == IF a <= b THEN a ELSE b
Max2(a, b) == IF a >= b THEN a ELSE b

\* math.ceil(a / b) for a >= 0, b > 0
Ceil(a, b) == (a + b - 1) \div b

\* 1000 * cos(lat_mid), rounded, for lat_mid = latMid2 / 20 degrees: the
\* latitudes of the model lie within 1.5 degrees north of the equator
\* (cos rounds to 1.000) or within 1.5 degrees north of 60 degrees.
CosHigh == << 500, 499, 498, 498, 497, 496, 495, 495, 494, 493,
              492, 492, 491, 490, 489, 489, 488, 487, 486, 486,
              485, 484, 483, 483, 482, 481, 480, 479, 479, 478, 477 >>

HighLat == 60 * 10   \* 60 degrees, in tenths of a degree

CosMilli(latMid2) ==
    IF latMid2 >= 2 * HighLat THEN CosHigh[latMid2 - 2 * HighLat + 1] ELSE 1000

(***************************************************************************)
(* Geometry.  A rectangle is [minx, miny, maxx, maxy, xden, yden]: the     *)
(* bounds are minx/xden .. maxx/xden and miny/yden .. maxy/yden tenths of  *)
(* a degree.  The polygon is a set of parts, each an axis-aligned          *)
(* rectangle with integer bounds; the empty set is the empty geometry.     *)
(* The interior rings of the polygon are a set of such rectangles too.     *)
(***************************************************************************)
box(west, south, east, north) ==
    [minx |-> Min2(west, east), miny |-> Min2(south, north),
     maxx |-> Max2(west, east), maxy |-> Max2(south, north),
     xden |-> 1, yden |-> 1]

\* rect.intersects(polygon): closed sets, so touching counts
intersects(rect, polygon) ==
    \E p \in polygon :
        /\ rect.minx * p.xden <= p.maxx * rect.xden
        /\ p.minx * rect.xden <= rect.maxx * p.xden
        /\ rect.miny * p.yden <= p.maxy * rect.yden
        /\ p.miny * rect.yden <= rect.maxy * p.yden

\* two rectangles denote the same rectangle
SameRect(a, b) ==
    /\ a.minx * b.xden = b.minx * a.xden
    /\ a.maxx * b.xden = b.maxx * a.xden
    /\ a.miny * b.yden = b.miny * a.yden
    /\ a.maxy * b.yden = b.maxy * a.yden

(***************************************************************************)
(* split_boundary_box                                                      *)
(***************************************************************************)
km_per_deg_lat == 111

\* width_km and height_km in 1/10000 km (the box has xden = yden = 1)
width_km(bb) == (bb.maxx - bb.minx) * km_per_deg_lat * CosMilli(bb.miny + bb.maxy)
height_km(bb) == (bb.maxy - bb.miny) * km_per_deg_lat * 1000

KmUnit == 10 * 1000

\* if width_km <= max_size_km and height_km <= max_size_km
FitsSingleTile(bb, max_km) ==
    width_km(bb) <= max_km * KmUnit /\ height_km(bb) <= max_km * KmUnit

\* if width_km * height_km > 1000: max_size_km = min(60, max(30, max_size_km))
AdaptedMaxSize(bb, max_km) ==
    IF width_km(bb) * ((bb.maxy - bb.miny) * km_per_deg_lat) > 1000 * KmUnit * 10
    THEN Min2(60, Max2(30, max_km))
    ELSE max_km

num_x(bb, max_km) == Ceil(width_km(bb), AdaptedMaxSize(bb, max_km) * KmUnit)
num_y(bb, max_km) == Ceil(height_km(bb), AdaptedMaxSize(bb, max_km) * KmUnit)

\* GridCell with the steps taken by floor division (step_x = dx // num_x)
GridCellFloorStep(bb, nx, ny, i, j) ==
    [minx |-> nx * (bb.minx + i * ((bb.maxx - bb.minx) \div nx)),
     maxx |-> nx * (bb.minx + (i + 1) * ((bb.maxx - bb.minx) \div nx)),
     miny |-> ny * (bb.miny + j * ((bb.maxy - bb.miny) \div ny)),
     maxy |-> ny * (bb.miny + (j + 1) * ((bb.maxy - bb.miny) \div ny)),
     xden |-> nx, yden |-> ny]

\* box(sub_minx, sub_miny, sub_maxx, sub_maxy) of grid cell (i, j), with
\* step_x = (maxx - minx) / nx and step_y = (maxy - miny) / ny
GridCell(bb, nx, ny, i, j) ==
    [minx |-> bb.minx * nx + i * (bb.maxx - bb.minx),
     maxx |-> bb.minx * nx + (i + 1) * (bb.maxx - bb.minx),
     miny |-> bb.miny * ny + j * (bb.maxy - bb.miny),
     maxy |-> bb.miny * ny + (j + 1) * (bb.maxy - bb.miny),
     xden |-> nx, yden |-> ny]

\* the cells in the order of the loops: for i in range(num_x): for j in range(num_y)
GridCells(bb, nx, ny) ==
    [k \in 1 .. nx * ny |-> GridCell(bb, nx, ny, (k - 1) \div ny, (k - 1) % ny)]

\* if rect.intersects(total_shapely_polygon): sub_rectangles.append(rect)
KeepCell(rect, polygon) == intersects(rect, polygon)

RECURSIVE FilterCells(_, _)
FilterCells(cells, polygon) ==
    IF cells = << >> THEN << >>
    ELSE LET rest == FilterCells(Tail(cells), polygon)
         IN  IF KeepCell(Head(cells), polygon) THEN <<Head(cells)>> \o rest ELSE rest

\* step_x = (maxx - minx) / num_x; step_y = (maxy - miny) / num_y
SplitDividesByZero(bb, max_km) ==
    /\ ~FitsSingleTile(bb, max_km)
    /\ (num_x(bb, max_km) = 0 \/ num_y(bb, max_km) = 0)

\* split_boundary_box without the single-rectangle shortcut
split_boundary_box_always_grid(bb, polygon, max_km) ==
    FilterCells(GridCells(bb, num_x(bb, max_km), num_y(bb, max_km)), polygon)

\* the list split_boundary_box returns when it returns
split_boundary_box(bb, polygon, max_km) ==
    IF FitsSingleTile(bb, max_km)
    THEN <<bb>>
    ELSE FilterCells(GridCells(bb, num_x(bb, max_km), num_y(bb, max_km)), polygon)

(***************************************************************************)
(* export_sub_polygon_as_png and process_sub_polygon.  A future is         *)
(* [state, runs, attempts, result]: state is "queued", "running", "done"   *)
(* or "harvested"; runs counts the workers that took the tile; attempts    *)
(* is the outcome of each pass of the retry loop so far: "ok" (status 200  *)
(* and a decodable image), "status" (another status code) or "error" (an   *)
(* exception in getDownloadURL, requests.get or Image.open); result is     *)
(* what process_sub_polygon returned: "raster", "None", or "exception"     *)
(* when it raised; "pending" before that.                                  *)
(***************************************************************************)
max_retries == 3

Outcomes == {"ok", "status", "error"}

NewFuture == [state |-> "queued", runs |-> 0, attempts |-> << >>, result |-> "pending"]

\* the retry loop returning on the first success and giving up one pass late
AfterAttemptOneTooMany(f, outcome) ==
    LET made == Append(f.attempts, outcome)
    IN  IF outcome = "ok"
        THEN [f EXCEPT !.attempts = made, !.state = "done", !.result = "raster"]
        ELSE IF Len(made) = max_retries + 1
             THEN [f EXCEPT !.attempts = made, !.state = "done", !.result = "None"]
             ELSE [f EXCEPT !.attempts = made]

\* the retry loop starting over after its last pass instead of returning None
AfterAttemptStartsOver(f, outcome) ==
    LET made == Append(f.attempts, outcome)
    IN  IF outcome = "ok"
        THEN [f EXCEPT !.attempts = made, !.state = "done", !.result = "raster"]
        ELSE IF Len(made) = max_retries
             THEN [f EXCEPT !.attempts = << >>]
             ELSE [f EXCEPT !.attempts = made]

\* one pass of `for retry in range(max_retries)`: return the image on status
\* 200, otherwise sleep and go on; after the last pass return None
AfterAttempt(f, outcome) ==
    LET made == Append(f.attempts, outcome)
    IN  IF outcome = "ok"
        THEN [f EXCEPT !.attempts = made, !.state = "done", !.result = "raster"]
        ELSE IF Len(made) = max_retries
             THEN [f EXCEPT !.attempts = made, !.state = "done", !.result = "None"]
             ELSE [f EXCEPT !.attempts = made]

(***************************************************************************)
(* process_and_export_image                                                *)
(***************************************************************************)
MaxWorkers == 10

\* a pool with one thread per tile, whatever their number
PoolSizeUncapped(n) == n

\* ThreadPoolExecutor(max_workers=min(10, len(sub_rects)))
PoolSize(n) == Min2(MaxWorkers, n)

Running == { i \in DOMAIN futures : futures[i].state = "running" }

\* the loop body of as_completed with every result appended, None included
HarvestedKeepsNone(res, i, f) ==
    IF f.result = "exception" THEN res
    ELSE Append(res, [index |-> i, shapely_sub_rect |-> sub_rects[i + 1]])

\* res = f.result(); if res: results.append(res); an exception is caught
Harvested(res, i, f) ==
    IF f.result = "raster"
    THEN Append(res, [index |-> i, shapely_sub_rect |-> sub_rects[i + 1]])
    ELSE res

FetchIdle ==
    /\ futures = << >>
    /\ work_queue = << >>
    /\ results = << >>

\* ThreadPoolExecutor(max_workers=0) raises ValueError
CreatePoolRaises ==
    /\ pc = "pool"
    /\ PoolSize(Len(sub_rects)) <= 0
    /\ raised' = "ValueError"
    /\ pc' = "raised"
    /\ UNCHANGED <<planVars, fetchVars, copy, mergeVars, statsVars, runVars, cacheVars>>

\* futures = [ex.submit(process_sub_polygon, a) for a in args], args being
\* enumerate(sub_rects): tile indexes 0 .. len - 1
SubmitAll ==
    /\ pc = "pool"
    /\ PoolSize(Len(sub_rects)) > 0
    /\ futures' = [i \in 0 .. Len(sub_rects) - 1 |-> NewFuture]
    /\ work_queue' = [k \in 1 .. Len(sub_rects) |-> k - 1]
    /\ results' = << >>
    /\ pc' = "fetching"
    /\ UNCHANGED <<planVars, raised, copy, mergeVars, statsVars, runVars, cacheVars>>

\* a free worker thread takes the next work item and enters process_sub_polygon
WorkerTakes ==
    /\ pc = "fetching"
    /\ work_queue # << >>
    /\ Cardinality(Running) < PoolSize(Len(sub_rects))
    /\ LET i == Head(work_queue)
       IN  futures' = [futures EXCEPT ![i].state = "running", ![i].runs = @ + 1]
    /\ work_queue' = Tail(work_queue)
    /\ UNCHANGED <<pc, raised, planVars, results, copy, mergeVars, statsVars, runVars, cacheVars>>

\* process_sub_polygon raises before the retry loop (shapely_to_ee, clip or
\* the construction of the rgb image fails): the future holds the exception
WorkerRaises(i) ==
    /\ pc = "fetching"
    /\ futures[i].state = "running"
    /\ futures[i].attempts = << >>
    /\ futures' = [futures EXCEPT ![i].state = "done", ![i].result = "exception"]
    /\ UNCHANGED <<pc, raised, planVars, work_queue, results, copy, mergeVars, statsVars, runVars, cacheVars>>

\* one pass of the retry loop of export_sub_polygon_as_png for tile i
Attempt(i, outcome) ==
    /\ pc = "fetching"
    /\ futures[i].state = "running"
    /\ futures' = [futures EXCEPT ![i] = AfterAttempt(futures[i], outcome)]
    /\ UNCHANGED <<pc, raised, planVars, work_queue, results, copy, mergeVars, statsVars, runVars, cacheVars>>

\* for f in as_completed(futures): one completed future is handed over
Harvest(i) ==
    /\ pc = "fetching"
    /\ futures[i].state = "done"
    /\ results' = Harvested(results, i, futures[i])
    /\ futures' = [futures EXCEPT ![i].state = "harvested"]
    /\ UNCHANGED <<pc, raised, planVars, work_queue, copy, mergeVars, statsVars, runVars, cacheVars>>

\* the with block left as soon as one future has been handed over
PoolExitAfterFirstResult ==
    /\ pc = "fetching"
    /\ \E i \in DOMAIN futures : futures[i].state = "harvested"
    /\ pc' = "merge"
    /\ UNCHANGED <<raised, planVars, fetchVars, copy, mergeVars, statsVars, runVars, cacheVars>>

\* the with block ends when every future has been handed over
PoolExit ==
    /\ pc = "fetching"
    /\ \A i \in DOMAIN futures : futures[i].state = "harvested"
    /\ pc' = "merge"
    /\ UNCHANGED <<raised, planVars, fetchVars, copy, mergeVars, statsVars, runVars, cacheVars>>


(***************************************************************************)
(* merge_images_properly.  The canvas is [w_px, h_px, pastes, mask]:       *)
(* pastes is the sequence of rectangles [index, x1, y1, x2, y2] pasted,    *)
(* the resized tile occupying columns x1 .. x2 - 1 and rows y1 .. y2 - 1;  *)
(* mask is the sequence of polygons [x1, y1, x2, y2, fill] drawn on the    *)
(* mask image, each covering columns x1 .. x2 and rows y1 .. y2.           *)
(***************************************************************************)
Copies == {"backend", "lambda"}

m_per_deg_lat == 111000
max_dim == 5000

\* w_m and h_m in tenths of a metre
w_m(bb) == ((bb.maxx - bb.minx) * m_per_deg_lat * CosMilli(bb.miny + bb.maxy)) \div 1000
h_m(bb) == (bb.maxy - bb.miny) * m_per_deg_lat

\* scale = 10; if w_m*h_m > 1e9: scale = 20
scale(bb) == IF w_m(bb) * (h_m(bb) \div 1000) > 100000000 THEN 20 ELSE 10

\* w_px = int(w_m/scale); h_px = int(h_m/scale)
RawSize(bb) == [w_px |-> w_m(bb) \div (10 * scale(bb)),
                h_px |-> h_m(bb) \div (10 * scale(bb))]

\* backend: factor = max(w_px/max_dim, h_px/max_dim);
\*          w_px = int(w_px/factor); h_px = int(h_px/factor)
CanvasSizeBackend(bb) ==
    LET raw == RawSize(bb)
        m == Max2(raw.w_px, raw.h_px)
    IN  IF raw.w_px > max_dim \/ raw.h_px > max_dim
        THEN [w_px |-> (raw.w_px * max_dim) \div m, h_px |-> (raw.h_px * max_dim) \div m]
        ELSE raw

\* lambda: scale_factor = max(width_pixels/max_dimension, height_pixels/max_dimension);
\*         width_pixels = int(width_pixels/scale_factor);
\*         height_pixels = int(height_m/scale_factor)
CanvasSizeLambda(bb) ==
    LET raw == RawSize(bb)
        m == Max2(raw.w_px, raw.h_px)
    IN  IF raw.w_px > max_dim \/ raw.h_px > max_dim
        THEN [w_px |-> (raw.w_px * max_dim) \div m,
              h_px |-> ((h_m(bb) \div 10) * max_dim) \div m]
        ELSE raw

CanvasSize(cp, bb) == IF cp = "backend" THEN CanvasSizeBackend(bb) ELSE CanvasSizeLambda(bb)

\* x = int((lon - minx)/(maxx-minx)*w_px) for lon = lonNum / den
PxX(bb, size, lonNum, den) ==
    ((lonNum - bb.minx * den) * size.w_px) \div (den * (bb.maxx - bb.minx))

\* y = int((maxy - lat)/(maxy-miny)*h_px) for lat = latNum / den
PxY(bb, size, latNum, den) ==
    ((bb.maxy * den - latNum) * size.h_px) \div (den * (bb.maxy - bb.miny))

Clamp(v, hi) == Max2(0, Min2(v, hi))

\* backend geo2px: return x,y
geo2px(bb, size, lonNum, xden, latNum, yden) ==
    [x |-> PxX(bb, size, lonNum, xden), y |-> PxY(bb, size, latNum, yden)]

\* lambda geo_to_pixel: return max(0, min(x, width_pixels - 1)), max(0, min(y, height_pixels - 1))
geo_to_pixel(bb, size, lonNum, xden, latNum, yden) ==
    [x |-> Clamp(PxX(bb, size, lonNum, xden), size.w_px - 1),
     y |-> Clamp(PxY(bb, size, latNum, yden), size.h_px - 1)]

GeoToPx(cp, bb, size, lonNum, xden, latNum, yden) ==
    IF cp = "backend" THEN geo2px(bb, size, lonNum, xden, latNum, yden)
    ELSE geo_to_pixel(bb, size, lonNum, xden, latNum, yden)

\* the rectangle of a tile taken one column wider than geo2px gives it
PasteRectOneWider(cp, bb, size, res) ==
    LET rect == res.shapely_sub_rect
        p1 == GeoToPx(cp, bb, size, rect.minx, rect.xden, rect.maxy, rect.yden)
        p2 == GeoToPx(cp, bb, size, rect.maxx, rect.xden, rect.miny, rect.yden)
    IN  [index |-> res.index, x1 |-> p1.x, y1 |-> p1.y, x2 |-> p2.x + 1, y2 |-> p2.y]

\* x1,y1 = geo2px(smx,sey); x2,y2 = geo2px(sex,smy)
PasteRect(cp, bb, size, res) ==
    LET rect == res.shapely_sub_rect
        p1 == GeoToPx(cp, bb, size, rect.minx, rect.xden, rect.maxy, rect.yden)
        p2 == GeoToPx(cp, bb, size, rect.maxx, rect.xden, rect.miny, rect.yden)
    IN  [index |-> res.index, x1 |-> p1.x, y1 |-> p1.y, x2 |-> p2.x, y2 |-> p2.y]

\* if x2-x1 <= 0 or y2-y1 <= 0: continue
Skipped(p) == p.x2 - p.x1 <= 0 \/ p.y2 - p.y1 <= 0

RECURSIVE PasteAll(_, _, _, _)
PasteAll(cp, bb, size, res) ==
    IF res = << >> THEN << >>
    ELSE LET p == PasteRect(cp, bb, size, Head(res))
             rest == PasteAll(cp, bb, size, Tail(res))
         IN  IF Skipped(p) THEN rest ELSE <<p>> \o rest

\* the colour (0,0,0) of the new images; a pixel of a tile is denoted by the
\* index of the tile
black == 0 - 1

\* the pixel (x, y) of the merged image after the pastes: the tile pasted
\* last over it, or the background
RECURSIVE PixelAfter(_, _, _)
PixelAfter(pastes, x, y) ==
    IF pastes = << >> THEN black
    ELSE LET p == pastes[Len(pastes)]
         IN  IF x \in p.x1 .. p.x2 - 1 /\ y \in p.y1 .. p.y2 - 1
             THEN p.index
             ELSE PixelAfter(SubSeq(pastes, 1, Len(pastes) - 1), x, y)

\* create_boundary_mask, geo2px:
\* return max(0,min(x,w_px-1)), max(0,min(y,h_px-1))
mask_geo2px(bb, size, lonNum, xden, latNum, yden) ==
    [x |-> Clamp(PxX(bb, size, lonNum, xden), size.w_px - 1),
     y |-> Clamp(PxY(bb, size, latNum, yden), size.h_px - 1)]

\* draw.polygon(px_coords, fill) on the corners of a ring: the pixels from
\* corner to corner, the outline included
DrawRing(bb, size, ring, fill) ==
    LET p1 == mask_geo2px(bb, size, ring.minx, ring.xden, ring.maxy, ring.yden)
        p2 == mask_geo2px(bb, size, ring.maxx, ring.xden, ring.miny, ring.yden)
    IN  [x1 |-> p1.x, y1 |-> p1.y, x2 |-> p2.x, y2 |-> p2.y, fill |-> fill]

\* the rings of a set drawn one after the other
RECURSIVE DrawRings(_, _, _, _)
DrawRings(bb, size, rings, fill) ==
    IF rings = {} THEN << >>
    ELSE LET ring == CHOOSE r \in rings : TRUE
         IN  <<DrawRing(bb, size, ring, fill)>> \o DrawRings(bb, size, rings \ {ring}, fill)

\* a mask with the interior rings drawn with 0 over the filled exteriors
create_boundary_mask_with_holes(polygon, rings, bb, size) ==
    DrawRings(bb, size, polygon, 255) \o DrawRings(bb, size, rings, 0)

\* mask = Image.new('L', (w_px,h_px), 0); for every part of the polygon:
\* draw.polygon(px_coords of poly.exterior.coords, fill=255).  The interior
\* rings of the polygon are not read.
create_boundary_mask(polygon, rings, bb, size) ==
    DrawRings(bb, size, polygon, 255)

\* the value of the mask at pixel (x, y): what was drawn last over it, or 0
RECURSIVE MaskAt(_, _, _)
MaskAt(mask, x, y) ==
    IF mask = << >> THEN 0
    ELSE LET d == mask[Len(mask)]
         IN  IF x \in d.x1 .. d.x2 /\ y \in d.y1 .. d.y2
             THEN d.fill
             ELSE MaskAt(SubSeq(mask, 1, Len(mask) - 1), x, y)

\* composite = Image.composite(merged, Image.new('RGB', merged.size, (0,0,0)), mask)
\* at pixel (x, y)
composite(cv, x, y) ==
    IF MaskAt(cv.mask, x, y) = 255 THEN PixelAfter(cv.pastes, x, y) ELSE black

\* the division (maxx-minx) or (maxy-miny) of geo2px is a division by zero
MergeDividesByZero(bb) == bb.maxx = bb.minx \/ bb.maxy = bb.miny

NoCanvas == [w_px |-> 0, h_px |-> 0, pastes |-> << >>, mask |-> << >>]

MergeIdle ==
    /\ canvas = NoCanvas
    /\ image_file = "pending"

\* results = [r for r in results if r]; if not results: return None
MergeNothing ==
    /\ pc = "merge"
    /\ results = << >>
    /\ image_file' = "None"
    /\ pc' = "exported"
    /\ UNCHANGED <<raised, copy, planVars, fetchVars, canvas, statsVars, runVars, cacheVars>>

MergeRaises ==
    /\ pc = "merge"
    /\ results # << >>
    /\ MergeDividesByZero(boundary_box)
    /\ canvas' = [NoCanvas EXCEPT !.w_px = CanvasSize(copy, boundary_box).w_px,
                                  !.h_px = CanvasSize(copy, boundary_box).h_px]
    /\ raised' = "ZeroDivisionError"
    /\ pc' = "raised"
    /\ UNCHANGED <<copy, planVars, fetchVars, image_file, statsVars, runVars, cacheVars>>

MergeImagesProperly ==
    /\ pc = "merge"
    /\ results # << >>
    /\ ~MergeDividesByZero(boundary_box)
    /\ LET size == CanvasSize(copy, boundary_box)
       IN  canvas' = [w_px |-> size.w_px, h_px |-> size.h_px,
                      pastes |-> PasteAll(copy, boundary_box, size, results),
                      mask |-> create_boundary_mask(total_shapely_polygon, interior_rings,
                                                    boundary_box, size)]
    /\ image_file' = "outfile"
    /\ pc' = "exported"
    /\ UNCHANGED <<raised, copy, planVars, fetchVars, statsVars, runVars, cacheVars>>

(***************************************************************************)
(* calculate_area_statistics.  Areas and percentages are integers in units *)
(* of 10^-5, the values round(x, 5) can take; total_area is in 10^-6 km2.  *)
(***************************************************************************)
CLASS_NAMES ==
    << "water", "trees", "grass", "flooded_vegetation", "crops", "shrub_and_scrub",
       "built", "bare", "snow_and_ice", "cloud", "natural_forest" >>

ClassNameSet == { CLASS_NAMES[k] : k \in DOMAIN CLASS_NAMES }

CodeOf(name) == CHOOSE c \in 0 .. Len(CLASS_NAMES) - 1 : CLASS_NAMES[c + 1] = name

\* a * b = q * d + r with 0 <= r < d, computed digit by digit of b so that no
\* intermediate value leaves the 32-bit integers
RECURSIVE MulDivMod(_, _, _)
MulDivMod(a, b, d) ==
    IF b = 0 THEN [q |-> 0, r |-> 0]
    ELSE LET hi == MulDivMod(a, b \div 10, d)
             low == 10 * hi.r + a * (b % 10)
         IN  [q |-> 10 * hi.q + low \div d, r |-> low % d]

\* a * b / d rounded to the nearest integer, ties to even: round(x, 5) of the
\* quotient expressed in units of 10^-5
RoundedQuotient(a, b, d) ==
    LET qr == MulDivMod(a, b, d)
    IN  IF 2 * qr.r > d \/ (2 * qr.r = d /\ qr.q % 2 = 1) THEN qr.q + 1 ELSE qr.q

RECURSIVE SumOver(_, _)
SumOver(f, S) ==
    IF S = {} THEN 0
    ELSE LET c == CHOOSE x \in S : TRUE IN f[c] + SumOver(f, S \ {c})

\* totals = {CLASS_NAMES[int(k)]: v for k,v in hist.items() if int(k) < len(CLASS_NAMES)}
TotalsCodes(h) == { c \in DOMAIN h : c < Len(CLASS_NAMES) }

\* the keys of hist whatever their class code
AllCodes(h) == DOMAIN h

\* pixel_sum = sum(totals.values())
pixel_sum(h) == SumOver(h, TotalsCodes(h))

\* areas[k] = round((v/pixel_sum)*total_area, 5) without the rounding: the
\* quotient truncated
ClassAreaTruncated(h, total_area, c) ==
    IF pixel_sum(h) > 0 THEN MulDivMod(h[c], total_area, 10 * pixel_sum(h)).q ELSE 0

\* the area of a class taken from its pixel count, 10 m pixels of 10^-4 km2
\* each, instead of its share of total_area
ClassAreaFromPixels(h, total_area, c) ==
    IF pixel_sum(h) > 0 THEN 10 * h[c] ELSE 0

\* areas[k] = round((v/pixel_sum)*total_area, 5) if pixel_sum else 0.0
ClassArea(h, total_area, c) ==
    IF pixel_sum(h) > 0 THEN RoundedQuotient(h[c], total_area, 10 * pixel_sum(h)) ELSE 0

\* for name in CLASS_NAMES: areas.setdefault(name, 0.0)
Areas(h, total_area) ==
    [name \in ClassNameSet |->
        IF CodeOf(name) \in TotalsCodes(h) THEN ClassArea(h, total_area, CodeOf(name)) ELSE 0]

\* round((part/total_forest)*100, 5) if total_forest else 0, truncating
ForestPercentageTruncated(part, total_forest) ==
    IF total_forest > 0 THEN MulDivMod(part, 10000000, total_forest).q ELSE 0

\* round((part/total_forest)*100, 5) if total_forest else 0
ForestPercentage(part, total_forest) ==
    IF total_forest > 0 THEN RoundedQuotient(part, 10000000, total_forest) ELSE 0

\* round((val/total_area)*100, 5) if total_area else 0
ClassPercentage(val, total_area) ==
    IF total_area > 0 THEN RoundedQuotient(val, 100000000, total_area) ELSE 0

\* the entries of stats["land_cover_classes"]: the classes with val > 0
LandCoverClasses(ar, total_area) ==
    [name \in { n \in ClassNameSet : ar[n] > 0 } |->
        [area_km2 |-> ar[name], percentage |-> ClassPercentage(ar[name], total_area)]]

Stats(ar, total_area) ==
    LET nf_area == ar["natural_forest"]
        tree_area == ar["trees"]
        total_forest == nf_area + tree_area
    IN  [total_area_km2 |-> RoundedQuotient(total_area, 1, 10),
         forest_area_km2 |-> total_forest,
         natural_forest_km2 |-> nf_area,
         natural_forest_percentage |-> ForestPercentage(nf_area, total_forest),
         other_trees_km2 |-> tree_area,
         other_trees_percentage |-> ForestPercentage(tree_area, total_forest),
         land_cover_classes |-> LandCoverClasses(ar, total_area)]

\* the divisors calculate_area_statistics divides by, all guards dropped
StatsDivisorsUnguarded(h, total_area) ==
    LET ar == Areas(h, total_area)
        total_forest == ar["natural_forest"] + ar["trees"]
    IN  (IF TotalsCodes(h) # {} THEN {pixel_sum(h)} ELSE {})
        \cup {total_forest}
        \cup (IF \E n \in ClassNameSet : ar[n] > 0 THEN {total_area} ELSE {})

\* the divisors calculate_area_statistics divides by: pixel_sum for each
\* entry of totals `if pixel_sum`, total_forest `if total_forest`, total_area
\* for each class with val > 0 `if total_area`
StatsDivisors(h, total_area) ==
    LET ar == Areas(h, total_area)
        total_forest == ar["natural_forest"] + ar["trees"]
    IN  (IF TotalsCodes(h) # {} /\ pixel_sum(h) # 0 THEN {pixel_sum(h)} ELSE {})
        \cup (IF total_forest # 0 THEN {total_forest} ELSE {})
        \cup (IF (\E n \in ClassNameSet : ar[n] > 0) /\ total_area # 0
              THEN {total_area} ELSE {})

NoStats == [total_area_km2 |-> 0, forest_area_km2 |-> 0, natural_forest_km2 |-> 0,
            natural_forest_percentage |-> 0, other_trees_km2 |-> 0,
            other_trees_percentage |-> 0, land_cover_classes |-> << >>]

NoAreas == [name \in ClassNameSet |-> 0]

\* the statistics of a run whose imagery step is examined alone
StatsDone ==
    /\ hist = << >>
    /\ CORRECT_AREA = 0
    /\ areas = NoAreas
    /\ stats = Stats(NoAreas, 0)

CalculateAreaStatistics ==
    /\ pc = "stats"
    /\ areas' = Areas(hist, CORRECT_AREA)
    /\ stats' = Stats(Areas(hist, CORRECT_AREA), CORRECT_AREA)
    /\ pc' = "split"
    /\ UNCHANGED <<raised, copy, planVars, fetchVars, mergeVars, hist, CORRECT_AREA, runVars, cacheVars>>

(***************************************************************************)
(* The analysis branch of lambda_handler around                            *)
(* process_natural_forest_classification.  provider holds the answers of   *)
(* the classification provider: s2_size is s2.size().getInfo(),            *)
(* cloud_cover the CLOUDY_PIXEL_PERCENTAGE of the first image, dw_size     *)
(* dw_collection.size().getInfo().  response is [statusCode, status,       *)
(* message]: status and message are the fields of the JSON body.           *)
(***************************************************************************)
\* the fields load_boundary reads; data.get('area', 0) reads area
RequiredFields ==
    <<"area", "city_geometry", "bbox_west", "bbox_south", "bbox_east", "bbox_north">>

\* the fields read with data[...], in the order load_boundary reads them
SubscriptedFields == <<"city_geometry", "bbox_west", "bbox_south", "bbox_east", "bbox_north">>

\* data[...] raises KeyError for a field the document lacks
LoadBoundaryFails(d) == \E k \in DOMAIN SubscriptedFields : SubscriptedFields[k] \in d.missing

\* the field of the KeyError: the first one read that the document lacks
KeyErrorField(d) ==
    SubscriptedFields[CHOOSE k \in DOMAIN SubscriptedFields :
                          /\ SubscriptedFields[k] \in d.missing
                          /\ \A j \in 1 .. k - 1 : SubscriptedFields[j] \notin d.missing]

\* json_area = data.get('area', 0)
json_area(d) == IF "area" \in d.missing THEN 0 ELSE d.area

ProviderFound == [s2_size |-> 1, cloud_cover |-> 0, dw_size |-> 1]

NoResponse == [statusCode |-> 0, status |-> "none", message |-> ""]

\* the message of the 400 response returned when result is falsy
CloudMessage(cp) ==
    IF cp = "backend" THEN "Cloud cover too high--try another range"
    ELSE "Cloud cover is too much, please try another date range"

\* str(exc) of the exceptions the run raises
ZeroDivisionMessage == "float division by zero"
MaxWorkersMessage == "max_workers must be greater than 0"
FilenameMessage == "Filename must be a string or a path-like object"

\* str(KeyError(field)) is the repr of the field name
KeyErrorMessage(field) ==
    CASE field = "city_geometry" -> "'city_geometry'"
      [] field = "bbox_west" -> "'bbox_west'"
      [] field = "bbox_south" -> "'bbox_south'"
      [] field = "bbox_east" -> "'bbox_east'"
      [] OTHER -> "'bbox_north'"

\* the text of the provider's and the object store's own exceptions
EEExceptionMessage == "Earth Engine request failed"
UploadFailedMessage == "Failed to upload"

ExcMessage(e) ==
    CASE e = "ZeroDivisionError" -> ZeroDivisionMessage
      [] e = "KeyError" -> KeyErrorMessage(KeyErrorField(doc))
      [] e = "EEException" -> EEExceptionMessage
      [] e = "S3UploadFailedError" -> UploadFailedMessage
      [] OTHER -> MaxWorkersMessage

ErrorResponse(code, msg) == [statusCode |-> code, status |-> "error", message |-> msg]

SuccessResponse == [statusCode |-> 200, status |-> "success", message |-> ""]

\* the objects uploaded under s3_image_key and s3_stats_key
ImageKey == "natural_forest_classification.png"
StatsKey == "natural_forest_stats.json"

RunIdle ==
    /\ provider = ProviderFound
    /\ uploaded = {}
    /\ response = NoResponse
    /\ doc = [missing |-> {}, area |-> CORRECT_AREA]

\* if cloud_cover > 1
cloud_threshold == 1

\* the run without the test of s2.size(): only the later tests abort it
ClassificationReturnsNoneUnlessNoScene(cp, pr) ==
    \/ (cp = "backend" /\ pr.cloud_cover > cloud_threshold)
    \/ (pr.s2_size > 0 /\ pr.dw_size = 0)

\* process_natural_forest_classification returns None before any statistics:
\* no Sentinel-2 image, cloud_cover > 1 (backend copy only), or no Dynamic
\* World image
ClassificationReturnsNone(cp, pr) ==
    \/ pr.s2_size = 0
    \/ (cp = "backend" /\ pr.cloud_cover > cloud_threshold)
    \/ pr.dw_size = 0

\* result = process_natural_forest_classification(...); if not result: return 400
\* load_boundary raises KeyError: the globals keep their values
LoadBoundaryRaises ==
    /\ pc = "request"
    /\ LoadBoundaryFails(doc)
    /\ raised' = "KeyError"
    /\ pc' = "raised"
    /\ UNCHANGED <<copy, planVars, fetchVars, mergeVars, statsVars, runVars, cacheVars>>

AnalysisReturnsNone ==
    /\ pc = "request"
    /\ ~LoadBoundaryFails(doc)
    /\ CORRECT_AREA' = json_area(doc)
    /\ ClassificationReturnsNone(copy, provider)
    /\ response' = ErrorResponse(400, CloudMessage(copy))
    /\ pc' = "done"
    /\ UNCHANGED <<raised, copy, planVars, fetchVars, mergeVars, hist, areas, stats,
                   provider, uploaded, doc, cacheVars>>

\* the provider has imagery: the run goes on to calculate_area_statistics
AnalysisProceeds ==
    /\ pc = "request"
    /\ ~LoadBoundaryFails(doc)
    /\ CORRECT_AREA' = json_area(doc)
    /\ ~ClassificationReturnsNone(copy, provider)
    /\ pc' = "stats"
    /\ UNCHANGED <<raised, copy, planVars, fetchVars, mergeVars, hist, areas, stats, runVars, cacheVars>>

\* an exception left process_natural_forest_classification: except Exception
\* returns 500 with str(exc)
HandlerExcept ==
    /\ pc = "raised"
    /\ response' = ErrorResponse(500, ExcMessage(raised))
    /\ pc' = "done"
    /\ UNCHANGED <<raised, copy, planVars, fetchVars, mergeVars, statsVars, provider, uploaded, doc, cacheVars>>

\* result is the tuple (image_file, stats_file, image_date), truthy whatever
\* image_file is.  s3.upload_file(None, ...) raises ValueError before anything
\* is sent, and except Exception returns 500 with str(exc)
UploadRaises ==
    /\ pc = "exported"
    /\ image_file = "None"
    /\ raised' = "ValueError"
    /\ response' = ErrorResponse(500, FilenameMessage)
    /\ pc' = "done"
    /\ UNCHANGED <<copy, planVars, fetchVars, mergeVars, statsVars, provider, uploaded, doc, cacheVars>>

\* reduceRegion(...).getInfo() raises: the provider fails during the
\* statistics query and nothing is written
StatsQueryRaises ==
    /\ pc = "stats"
    /\ raised' = "EEException"
    /\ pc' = "raised"
    /\ UNCHANGED <<copy, planVars, fetchVars, mergeVars, statsVars, runVars, cacheVars>>

\* the two uploads in the order of the calls
UploadOrder == <<ImageKey, StatsKey>>

\* s3.upload_file raises for the image (sent = 0) or, the image being stored,
\* for the statistics (sent = 1); except Exception returns 500
UploadFails(sent) ==
    /\ pc = "exported"
    /\ image_file # "None"
    /\ uploaded' = { UploadOrder[k] : k \in 1 .. sent }
    /\ raised' = "S3UploadFailedError"
    /\ response' = ErrorResponse(500, UploadFailedMessage)
    /\ pc' = "done"
    /\ UNCHANGED <<copy, planVars, fetchVars, mergeVars, statsVars, provider, doc, cacheVars>>

\* both files are uploaded and the success response is returned
UploadResults ==
    /\ pc = "exported"
    /\ image_file # "None"
    /\ uploaded' = {ImageKey, StatsKey}
    /\ response' = SuccessResponse
    /\ pc' = "done"
    /\ UNCHANGED <<raised, copy, planVars, fetchVars, mergeVars, statsVars, provider, doc, cacheVars>>

(***************************************************************************)
(* shapely_to_ee and get_protected_areas under functools.lru_cache.  A     *)
(* cache is the sequence of its entries [key, value, used], the least      *)
(* recently used entry first (the order of lru_cache's linked list).       *)
(* value identifies the run of the function body that produced the stored  *)
(* result; used is the time of the entry's last lookup.  A geometry key is *)
(* the number of a geometry text; a protected-area key is <<geometry text, *)
(* date>>, the date 'YYYY-MM-dd' being the integer YYYYMMdd.               *)
(***************************************************************************)
geometry_maxsize == 128
protected_maxsize == 32

\* a cache whose keys never compare equal: every lookup is a miss
LruFindNothing(cache, key) == 0

\* the position of key in the cache, 0 when it is not cached
LruFind(cache, key) ==
    IF \E i \in DOMAIN cache : cache[i].key = key
    THEN CHOOSE i \in DOMAIN cache : cache[i].key = key
    ELSE 0

Without(cache, i) == SubSeq(cache, 1, i - 1) \o SubSeq(cache, i + 1, Len(cache))

\* a hit that returns the result and leaves the entry where it is
LruHitInPlace(cache, i, now) == [cache EXCEPT ![i].used = now]

\* a hit: the entry becomes the most recently used one
LruHit(cache, i, now) == Append(Without(cache, i), [cache[i] EXCEPT !.used = now])

\* a miss that stores the result and evicts nothing
LruMissUnbounded(cache, key, value, now, maxsize) ==
    Append(cache, [key |-> key, value |-> value, used |-> now])

\* a miss: the result is stored as the most recently used entry; a full
\* cache first drops its oldest entry
LruMiss(cache, key, value, now, maxsize) ==
    LET entry == [key |-> key, value |-> value, used |-> now]
    IN  IF Len(cache) >= maxsize THEN Append(Tail(cache), entry) ELSE Append(cache, entry)

\* the cache after a lookup of key, value being the result of a miss
LruAfter(cache, key, value, now, maxsize) ==
    IF LruFind(cache, key) # 0 THEN LruHit(cache, LruFind(cache, key), now)
    ELSE LruMiss(cache, key, value, now, maxsize)

\* what the lookup returns: the stored value on a hit
LruReturned(cache, key, value) ==
    IF LruFind(cache, key) # 0 THEN cache[LruFind(cache, key)].value ELSE value

\* yyyymm = dt.strftime('%Y%m') of strptime(target_date_str, '%Y-%m-%d')
yyyymm(date) == date \div 100

\* the key lru_cache makes of the arguments (boundary_wkt, target_date_str)
ProtectedKeyByMonth(wkt, date) == <<wkt, yyyymm(date)>>

ProtectedKey(wkt, date) == <<wkt, date>>

NoLookup == [fn |-> "none", key |-> 0, value |-> 0]

CacheIdle ==
    /\ geometry_cache = << >>
    /\ protected_cache = << >>
    /\ conversions = 0
    /\ remote_calls = 0
    /\ clock = 0
    /\ last_lookup = NoLookup
    /\ fresh = 0
    /\ exercised = "none"
    /\ repeated = FALSE

otherVars == <<pc, raised, copy, planVars, fetchVars, mergeVars, statsVars, runVars>>

\* shapely_to_ee(poly_wkt) for the geometry text number key
ShapelyToEe(key, isFresh) ==
    /\ pc = "cache"
    /\ exercised = "shapely_to_ee"
    /\ LET hit == LruFind(geometry_cache, key) # 0
           value == conversions + 1
       IN  /\ geometry_cache' = LruAfter(geometry_cache, key, value, clock + 1, geometry_maxsize)
           /\ conversions' = IF hit THEN conversions ELSE conversions + 1
           /\ last_lookup' = [fn |-> "shapely_to_ee", key |-> key,
                              value |-> LruReturned(geometry_cache, key, value)]
    /\ clock' = clock + 1
    /\ fresh' = IF isFresh THEN fresh + 1 ELSE fresh
    /\ repeated' = (repeated \/ ~isFresh)
    /\ UNCHANGED <<otherVars, protected_cache, remote_calls, exercised>>

\* get_protected_areas(boundary_wkt, target_date_str): on a miss the body
\* runs, which looks boundary_wkt up with shapely_to_ee and asks the provider
GetProtectedAreas(wkt, date, isFresh) ==
    /\ pc = "cache"
    /\ exercised = "get_protected_areas"
    /\ LET key == ProtectedKey(wkt, date)
           hit == LruFind(protected_cache, key) # 0
           value == remote_calls + 1
       IN  /\ protected_cache' = LruAfter(protected_cache, key, value, clock + 1, protected_maxsize)
           /\ remote_calls' = IF hit THEN remote_calls ELSE remote_calls + 1
           /\ geometry_cache' =
                 IF hit THEN geometry_cache
                 ELSE LruAfter(geometry_cache, wkt, conversions + 1, clock + 1, geometry_maxsize)
           /\ conversions' =
                 IF hit \/ LruFind(geometry_cache, wkt) # 0 THEN conversions ELSE conversions + 1
           /\ last_lookup' = [fn |-> "get_protected_areas", key |-> key,
                              value |-> LruReturned(protected_cache, key, value)]
    /\ clock' = clock + 1
    /\ fresh' = IF isFresh THEN fresh + 1 ELSE fresh
    /\ repeated' = (repeated \/ ~isFresh)
    /\ UNCHANGED <<otherVars, exercised>>

(***************************************************************************)
(* Inputs of the planner.                                                  *)
(***************************************************************************)
Lons == 0 .. MaxX
Lats == (0 .. MaxY) \cup (HighLat .. HighLat + MaxY)

SameBand(a, b) == (a >= HighLat) = (b >= HighLat)

Boxes ==
    { box(w, s, e, n) : <<w, s, e, n>> \in
        { t \in Lons \X Lats \X Lons \X Lats :
            t[1] <= t[3] /\ t[2] <= t[4] /\ SameBand(t[2], t[4]) } }

Part(w, s, e, n) == box(w, s, e, n)

Polygons ==
    { {},
      { Part(0, 0, 1, 1) },
      { Part(3, 0, MaxX, MaxY) },
      { Part(0, 0, 1, 1), Part(5, 3, 6, 4) },
      { Part(0, HighLat, MaxX, HighLat + MaxY) } }

MaxSizes == {20, 30}

(***************************************************************************)
(* The planner as an action.                                               *)
(***************************************************************************)
InitPlan ==
    /\ pc = "split"
    /\ boundary_box \in Boxes
    /\ total_shapely_polygon \in Polygons
    /\ interior_rings = {}
    /\ max_size_km \in MaxSizes
    /\ sub_rects = << >>
    /\ raised = "none"
    /\ FetchIdle
    /\ copy \in Copies
    /\ MergeIdle
    /\ StatsDone
    /\ RunIdle
    /\ CacheIdle

SplitBoundaryBox ==
    /\ pc = "split"
    /\ ~SplitDividesByZero(boundary_box, max_size_km)
    /\ sub_rects' = split_boundary_box(boundary_box, total_shapely_polygon, max_size_km)
    /\ pc' = "pool"
    /\ UNCHANGED <<boundary_box, total_shapely_polygon, interior_rings, max_size_km, raised, copy, fetchVars, mergeVars, statsVars, runVars, cacheVars>>

SplitBoundaryBoxRaises ==
    /\ pc = "split"
    /\ SplitDividesByZero(boundary_box, max_size_km)
    /\ raised' = "ZeroDivisionError"
    /\ pc' = "raised"
    /\ UNCHANGED <<boundary_box, total_shapely_polygon, interior_rings, max_size_km, sub_rects, copy, fetchVars, mergeVars, statsVars, runVars, cacheVars>>

NextPlan == SplitBoundaryBox \/ SplitBoundaryBoxRaises

SpecPlan == InitPlan /\ [][NextPlan]_vars

(***************************************************************************)
(* The fetch phase on the tiles of a planned box.                          *)
(***************************************************************************)
InitFetch ==
    /\ pc = "split"
    /\ boundary_box \in { box(0, 0, e, 1) : e \in 0 .. MaxFetchX } \cup { box(0, 0, 0, 3) }
    /\ total_shapely_polygon \in { {}, { Part(0, 0, 1, 1) }, { Part(0, 0, MaxX, MaxY) } }
    /\ interior_rings = {}
    /\ max_size_km = 30
    /\ sub_rects = << >>
    /\ raised = "none"
    /\ FetchIdle
    /\ copy \in Copies
    /\ MergeIdle
    /\ StatsDone
    /\ RunIdle
    /\ CacheIdle

NextFetch ==
    \/ SplitBoundaryBox
    \/ SplitBoundaryBoxRaises
    \/ CreatePoolRaises
    \/ SubmitAll
    \/ WorkerTakes
    \/ \E i \in DOMAIN futures : WorkerRaises(i)
    \/ \E i \in DOMAIN futures, o \in Outcomes : Attempt(i, o)
    \/ \E i \in DOMAIN futures : Harvest(i)
    \/ PoolExit

SpecFetch == InitFetch /\ [][NextFetch]_vars

(***************************************************************************)
(* The fetch phase under fair scheduling: a free worker thread takes a     *)
(* queued tile, a call in progress (process_sub_polygon, or one pass of    *)
(* the retry loop) ends, and the coordinating thread goes on with its      *)
(* as_completed loop and leaves the with block.                            *)
(***************************************************************************)
TileIndexes == 0 .. MaxRunX

\* the next step of the worker that holds tile i
TileStep(i) ==
    /\ i \in DOMAIN futures
    /\ (WorkerRaises(i) \/ \E o \in Outcomes : Attempt(i, o))

\* the next step of the coordinating thread inside the with block
CoordinatorStep == (\E i \in DOMAIN futures : Harvest(i)) \/ PoolExit

FairFetch ==
    /\ WF_vars(WorkerTakes)
    /\ \A i \in TileIndexes : WF_vars(TileStep(i))
    /\ WF_vars(CoordinatorStep)

\* a box of two tiles, a box without width, and polygons that meet every
\* tile or none
InitFetchFair ==
    /\ pc = "split"
    /\ boundary_box \in { box(0, 0, MaxRunX, 1), box(0, 0, 0, 3) }
    /\ total_shapely_polygon \in { {}, { Part(0, 0, MaxRunX, 1) } }
    /\ interior_rings = {}
    /\ max_size_km = 30
    /\ sub_rects = << >>
    /\ raised = "none"
    /\ FetchIdle
    /\ copy \in Copies
    /\ MergeIdle
    /\ StatsDone
    /\ RunIdle
    /\ CacheIdle

SpecFetchFair == InitFetchFair /\ [][NextFetch]_vars /\ FairFetch

(***************************************************************************)
(* The merge of the tiles fetched for a planned box: any subset of the     *)
(* planned tiles may have been fetched.                                    *)
(***************************************************************************)
MergeBoxes == { b \in Boxes : b.minx <= 1 /\ b.miny \in {0, HighLat} }

FetchedFuture == [state |-> "harvested", runs |-> 1, attempts |-> <<"ok">>, result |-> "raster"]
FailedFuture ==
    [state |-> "harvested", runs |-> 1, attempts |-> <<"status", "error", "status">>,
     result |-> "None"]

RECURSIVE ResultsOf(_, _, _)
ResultsOf(rects, fetched, i) ==
    IF i >= Len(rects) THEN << >>
    ELSE (IF i \in fetched THEN <<[index |-> i, shapely_sub_rect |-> rects[i + 1]]>> ELSE << >>)
         \o ResultsOf(rects, fetched, i + 1)

InitMerge ==
    /\ pc = "merge"
    /\ boundary_box \in MergeBoxes
    /\ total_shapely_polygon \in Polygons
    /\ interior_rings = {}
    /\ max_size_km = 30
    /\ ~SplitDividesByZero(boundary_box, max_size_km)
    /\ sub_rects = split_boundary_box(boundary_box, total_shapely_polygon, max_size_km)
    /\ sub_rects # << >>
    /\ raised = "none"
    /\ copy \in Copies
    /\ \E fetched \in SUBSET (0 .. Len(sub_rects) - 1) :
          /\ futures = [i \in 0 .. Len(sub_rects) - 1 |->
                           IF i \in fetched THEN FetchedFuture ELSE FailedFuture]
          /\ results = ResultsOf(sub_rects, fetched, 0)
    /\ work_queue = << >>
    /\ MergeIdle
    /\ StatsDone
    /\ RunIdle
    /\ CacheIdle

NextMerge == MergeNothing \/ MergeRaises \/ MergeImagesProperly

SpecMerge == InitMerge /\ [][NextMerge]_vars

(***************************************************************************)
(* The merge on boxes large enough for the maximum dimension to apply:     *)
(* wide boxes of little height and tall boxes of little width, with every  *)
(* planned tile fetched or none.                                           *)
(***************************************************************************)
CanvasExtents ==
    ((1 .. MaxCanvasX) \X (1 .. 2)) \cup ((0 .. 2) \X (1 .. MaxCanvasY))

CanvasBoxes ==
    { box(0, s, e[1], s + e[2]) : s \in {0, HighLat}, e \in CanvasExtents }

InitCanvas ==
    /\ pc = "merge"
    /\ boundary_box \in CanvasBoxes
    /\ total_shapely_polygon = { boundary_box }
    /\ interior_rings = {}
    /\ max_size_km = 30
    /\ ~SplitDividesByZero(boundary_box, max_size_km)
    /\ sub_rects = split_boundary_box(boundary_box, total_shapely_polygon, max_size_km)
    /\ raised = "none"
    /\ copy \in Copies
    /\ \E fetched \in { {}, 0 .. Len(sub_rects) - 1 } :
          /\ futures = [i \in 0 .. Len(sub_rects) - 1 |->
                           IF i \in fetched THEN FetchedFuture ELSE FailedFuture]
          /\ results = ResultsOf(sub_rects, fetched, 0)
    /\ work_queue = << >>
    /\ MergeIdle
    /\ StatsDone
    /\ RunIdle
    /\ CacheIdle

SpecCanvas == InitCanvas /\ [][NextMerge]_vars

(***************************************************************************)
(* The merge and the boundary mask: polygons of one or two parts, inside   *)
(* the box or reaching beyond it, with or without an interior ring.  The   *)
(* rings are smaller than a tile, so that every planned tile meets the     *)
(* polygon whether the rings are regarded or not.                          *)
(***************************************************************************)
MaskBoxes == { box(0, 0, 2, 2), box(0, 0, 1, 2), box(0, 0, 4, 1), box(0, 0, 0, 1) }

MaskPolygons ==
    { { Part(0, 0, 2, 2) },
      { Part(0, 0, 1, 1) },
      { Part(1, 1, 3, 3) },
      { Part(0, 0, 1, 1), Part(2, 0, 4, 1) },
      { Part(0, 0, 4, 1) } }

\* the rings 0.05 .. 0.15 and 0.025 .. 0.075 degrees, in both directions
Rings ==
    { [minx |-> 1, miny |-> 1, maxx |-> 3, maxy |-> 3, xden |-> 2, yden |-> 2],
      [minx |-> 1, miny |-> 1, maxx |-> 3, maxy |-> 3, xden |-> 4, yden |-> 4] }

\* the ring lies in the interior of the part
RingInside(ring, part) ==
    /\ part.minx * ring.xden < ring.minx * part.xden
    /\ ring.maxx * part.xden < part.maxx * ring.xden
    /\ part.miny * ring.yden < ring.miny * part.yden
    /\ ring.maxy * part.yden < part.maxy * ring.yden

InteriorRingsOf(polygon) ==
    { {} } \cup { {ring} : ring \in { r \in Rings : \E part \in polygon : RingInside(r, part) } }

InitMask ==
    /\ pc = "merge"
    /\ boundary_box \in MaskBoxes
    /\ total_shapely_polygon \in MaskPolygons
    /\ interior_rings \in InteriorRingsOf(total_shapely_polygon)
    /\ max_size_km = 30
    /\ ~SplitDividesByZero(boundary_box, max_size_km)
    /\ sub_rects = split_boundary_box(boundary_box, total_shapely_polygon, max_size_km)
    /\ sub_rects # << >>
    /\ raised = "none"
    /\ copy \in Copies
    /\ \E fetched \in SUBSET (0 .. Len(sub_rects) - 1) :
          /\ futures = [i \in 0 .. Len(sub_rects) - 1 |->
                           IF i \in fetched THEN FetchedFuture ELSE FailedFuture]
          /\ results = ResultsOf(sub_rects, fetched, 0)
    /\ work_queue = << >>
    /\ MergeIdle
    /\ StatsDone
    /\ RunIdle
    /\ CacheIdle

SpecMask == InitMask /\ [][NextMerge]_vars

(***************************************************************************)
(* The statistics of a histogram and a ground-truth area.                  *)
(***************************************************************************)
HistCodes == {0, 1, 10, MaxCode}
Counts == {1, 2, 10, 40, 50}
Hists == UNION { [S -> Counts] : S \in SUBSET HistCodes }

\* the area field: 0, 1 km2, 1.234567 km2, 100 km2
AreaFields == {0, 1000000, 1234567, 100000000}

InitStats ==
    /\ pc = "stats"
    /\ hist \in Hists
    /\ CORRECT_AREA \in AreaFields
    /\ areas = NoAreas
    /\ stats = NoStats
    /\ boundary_box = box(0, 0, 1, 1)
    /\ total_shapely_polygon = { Part(0, 0, 1, 1) }
    /\ interior_rings = {}
    /\ max_size_km = 30
    /\ sub_rects = << >>
    /\ raised = "none"
    /\ copy \in Copies
    /\ FetchIdle
    /\ MergeIdle
    /\ RunIdle
    /\ CacheIdle

NextStats == CalculateAreaStatistics

SpecStats == InitStats /\ [][NextStats]_vars

(***************************************************************************)
(* A whole analysis request: the boundary document, the provider's answers *)
(* and the histogram are the inputs.                                       *)
(***************************************************************************)
\* the histogram {water: 50, trees: 40, natural_forest: 10}
ExampleHist == (0 :> 50) @@ (1 :> 40) @@ (10 :> 10)

RunBoxes == { box(0, 0, 0, 1), box(0, 0, 0, 3), box(0, 0, 1, 1), box(0, 0, MaxRunX, 1) }

RunPolygons == { { Part(0, 0, MaxRunX, 1) }, { Part(0, 2, 1, 3) } }

Providers == [s2_size : {0, 1}, cloud_cover : {0, 2}, dw_size : {0, 1}]

\* boundary documents with area 100 km2: whole, or lacking fields
Docs ==
    [missing : { {} } \cup { {RequiredFields[k]} : k \in DOMAIN RequiredFields }
                     \cup { {"bbox_north", "bbox_west"} },
     area : {100000000}]

InitRun ==
    /\ pc = "request"
    /\ boundary_box \in RunBoxes
    /\ total_shapely_polygon \in RunPolygons
    /\ interior_rings = {}
    /\ max_size_km = 30
    /\ sub_rects = << >>
    /\ raised = "none"
    /\ copy \in Copies
    /\ hist \in { << >>, ExampleHist }
    /\ CORRECT_AREA = 0
    /\ areas = NoAreas
    /\ stats = NoStats
    /\ doc \in Docs
    /\ provider \in Providers
    /\ uploaded = {}
    /\ response = NoResponse
    /\ FetchIdle
    /\ MergeIdle
    /\ CacheIdle

NextRun ==
    \/ LoadBoundaryRaises
    \/ AnalysisReturnsNone
    \/ AnalysisProceeds
    \/ CalculateAreaStatistics
    \/ StatsQueryRaises
    \/ NextFetch
    \/ NextMerge
    \/ HandlerExcept
    \/ UploadRaises
    \/ \E sent \in 0 .. Len(UploadOrder) - 1 : UploadFails(sent)
    \/ UploadResults

SpecRun == InitRun /\ [][NextRun]_vars

(***************************************************************************)
(* Sequences of lookups.  The lookups of a behaviour go to one of the two  *)
(* cached functions; each looks up a geometry text not seen before, but    *)
(* for one lookup that repeats an earlier one or varies its date.          *)
(***************************************************************************)
\* three acquisition dates: two of January 2024, one of February 2024
Dates == <<20240105, 20240120, 20240205>>

\* the geometry texts an earlier lookup used that the repeated lookup may use:
\* the first one, the least recently used cached one, the last one
RepeatedGeometryKeys ==
    IF fresh = 0 THEN {}
    ELSE {0, fresh - 1} \cup (IF geometry_cache = << >> THEN {} ELSE {Head(geometry_cache).key})

RepeatedBoundaries ==
    IF fresh = 0 THEN {}
    ELSE {0, fresh - 1} \cup (IF protected_cache = << >> THEN {} ELSE {Head(protected_cache).key[1]})

InitCache ==
    /\ pc = "cache"
    /\ exercised \in {"shapely_to_ee", "get_protected_areas"}
    /\ geometry_cache = << >>
    /\ protected_cache = << >>
    /\ conversions = 0
    /\ remote_calls = 0
    /\ clock = 0
    /\ last_lookup = NoLookup
    /\ fresh = 0
    /\ repeated = FALSE
    /\ boundary_box = box(0, 0, 1, 1)
    /\ total_shapely_polygon = { Part(0, 0, 1, 1) }
    /\ interior_rings = {}
    /\ max_size_km = 30
    /\ sub_rects = << >>
    /\ raised = "none"
    /\ copy \in Copies
    /\ FetchIdle
    /\ MergeIdle
    /\ StatsDone
    /\ RunIdle

NextCache ==
    \/ fresh < MaxGeometries /\ ShapelyToEe(fresh, TRUE)
    \/ ~repeated /\ \E key \in RepeatedGeometryKeys : ShapelyToEe(key, FALSE)
    \/ fresh < MaxBoundaries /\ GetProtectedAreas(fresh, Dates[1], TRUE)
    \/ ~repeated /\ \E wkt \in RepeatedBoundaries, d \in DOMAIN Dates :
                        GetProtectedAreas(wkt, Dates[d], FALSE)

SpecCache == InitCache /\ [][NextCache]_vars

(***************************************************************************)
(* The worker pool on a box of more than ten tiles.  Every call of         *)
(* process_sub_polygon raises at once, which keeps the retry loops out of  *)
(* these behaviours.                                                       *)
(***************************************************************************)
InitPool ==
    /\ pc = "pool"
    /\ boundary_box = box(0, 0, MaxPoolX, 1)
    /\ total_shapely_polygon = { Part(0, 0, MaxPoolX, 1) }
    /\ interior_rings = {}
    /\ max_size_km = 30
    /\ sub_rects = split_boundary_box(boundary_box, total_shapely_polygon, max_size_km)
    /\ raised = "none"
    /\ copy = "backend"
    /\ FetchIdle
    /\ MergeIdle
    /\ StatsDone
    /\ RunIdle
    /\ CacheIdle

NextPool ==
    \/ SubmitAll
    \/ WorkerTakes
    \/ \E i \in DOMAIN futures : WorkerRaises(i)
    \/ \E i \in DOMAIN futures : Harvest(i)
    \/ PoolExit

SpecPool == InitPool /\ [][NextPool]_vars

(***************************************************************************)
(* Properties of the planner.                                              *)
(***************************************************************************)
Planned == pc = "pool"

TookGridPath == Planned /\ ~FitsSingleTile(boundary_box, max_size_km)

\* C4: the planner never returns a tile whose rectangle does not intersect
\* the true polygon, on the single-tile path as on the grid path.
C4_EveryTileIntersectsPolygon ==
    Planned =>
        \A k \in DOMAIN sub_rects : intersects(sub_rects[k], total_shapely_polygon)

\* C5: for a degenerate bounding box the planner returns a tile list and
\* never divides by zero: the grid counts it divides by are >= 1.
C5_NoDivisionByZero ==
    /\ raised # "ZeroDivisionError"
    /\ ~FitsSingleTile(boundary_box, max_size_km) =>
           num_x(boundary_box, max_size_km) >= 1 /\ num_y(boundary_box, max_size_km) >= 1

\* C6: a bounding box whose width and height are both within max_size_km
\* yields exactly one tile, and that tile is the bounding box.
C6_SmallBoxIsOneTile ==
    ( /\ Planned
      /\ width_km(boundary_box) <= max_size_km * KmUnit
      /\ height_km(boundary_box) <= max_size_km * KmUnit )
    => /\ Len(sub_rects) = 1
       /\ SameRect(sub_rects[1], boundary_box)

C6_Witness ==
    /\ Planned
    /\ width_km(boundary_box) <= max_size_km * KmUnit
    /\ height_km(boundary_box) <= max_size_km * KmUnit
    /\ boundary_box.minx < boundary_box.maxx
    /\ boundary_box.miny < boundary_box.maxy
    /\ Len(sub_rects) = 1
    /\ ~intersects(boundary_box, total_shapely_polygon)

\* two rectangles of one grid share interior points
InteriorsOverlap(a, b) ==
    /\ a.minx < b.maxx /\ b.minx < a.maxx
    /\ a.miny < b.maxy /\ b.miny < a.maxy

Succeeded(i) == \E k \in DOMAIN futures[i].attempts : futures[i].attempts[k] = "ok"

FailedTiles == { i \in DOMAIN futures : ~Succeeded(i) }

Collected == pc = "merge"

\* C1: with N planned tiles of which K never succeed, under every
\* interleaving of the workers the collected results hold exactly N - K
\* entries, one per tile whose fetch succeeded, none for a failed tile, no
\* tile index twice, and every tile was taken by exactly one worker.
C1_ResultsAreTheSucceededTiles ==
    Collected =>
        /\ DOMAIN futures = 0 .. Len(sub_rects) - 1
        /\ Len(results) = Len(sub_rects) - Cardinality(FailedTiles)
        /\ { results[k].index : k \in DOMAIN results } = DOMAIN futures \ FailedTiles
        /\ \A k1, k2 \in DOMAIN results :
              results[k1].index = results[k2].index => k1 = k2
        /\ \A k \in DOMAIN results :
              results[k].shapely_sub_rect = sub_rects[results[k].index + 1]
        /\ \A i \in DOMAIN futures : futures[i].runs = 1

C1_Witness ==
    /\ Collected
    /\ Len(sub_rects) = 3
    /\ Cardinality(FailedTiles) = 1
    /\ Len(results) = 2
    /\ results[1].index > results[2].index
    /\ \E i \in FailedTiles : Len(futures[i].attempts) = max_retries

\* C3: the retry loop returns the raster at the first attempt that succeeds
\* and makes no attempt after it; when the first max_retries attempts all
\* fail it returns None after exactly max_retries attempts, without raising.
C3_FirstSuccessOrNoneAfterMaxRetries ==
    \A i \in DOMAIN futures :
        LET f == futures[i]
            a == f.attempts
            allFailed == \A k \in DOMAIN a : a[k] # "ok"
        IN  /\ Len(a) <= max_retries
            /\ \A k \in 1 .. Len(a) - 1 : a[k] # "ok"
            /\ f.result = "raster" <=> (a # << >> /\ a[Len(a)] = "ok")
            /\ f.result = "None" <=> (Len(a) = max_retries /\ allFailed)
            /\ f.result = "exception" => a = << >>
            /\ f.state = "running" => (allFailed /\ Len(a) < max_retries)
            /\ f.state \in {"done", "harvested"} => f.result # "pending"

C3_Witness ==
    \E i, j \in DOMAIN futures :
        /\ futures[i].attempts = <<"status", "error", "ok">>
        /\ futures[i].result = "raster"
        /\ futures[j].attempts = <<"error", "status", "error">>
        /\ futures[j].result = "None"
        /\ futures[j].state = "harvested"

(***************************************************************************)
(* Properties of the mosaic.                                               *)
(***************************************************************************)
Merged == pc = "exported" /\ image_file = "outfile"

\* the canvas columns and rows that lie wholly inside the rectangle of a tile
ColsInside(rect) ==
    LET bb == boundary_box
        span == rect.xden * (bb.maxx - bb.minx)
        first == Ceil((rect.minx - bb.minx * rect.xden) * canvas.w_px, span)
        last == (((rect.maxx - bb.minx * rect.xden) * canvas.w_px) \div span) - 1
    IN  first .. Min2(last, canvas.w_px - 1)

RowsInside(rect) ==
    LET bb == boundary_box
        span == rect.yden * (bb.maxy - bb.miny)
        first == Ceil((bb.maxy * rect.yden - rect.maxy) * canvas.h_px, span)
        last == (((bb.maxy * rect.yden - rect.miny) * canvas.h_px) \div span) - 1
    IN  first .. Min2(last, canvas.h_px - 1)

PastedOver(cols, rows) ==
    \/ cols = {} \/ rows = {}
    \/ \E k \in DOMAIN canvas.pastes :
          LET p == canvas.pastes[k]
          IN  cols \subseteq p.x1 .. p.x2 - 1 /\ rows \subseteq p.y1 .. p.y2 - 1

\* C8: masking disregarded, a tile projected onto the canvas leaves no
\* background pixel inside the pixel extent of its sub-rectangle; a single
\* tile equal to the bounding box covers columns 0 .. w_px-1 and rows
\* 0 .. h_px-1.
C8_TileCoversItsPixelExtent ==
    Merged =>
        /\ \A k \in DOMAIN results :
              PastedOver(ColsInside(results[k].shapely_sub_rect),
                         RowsInside(results[k].shapely_sub_rect))
        /\ (Len(results) = 1 /\ SameRect(results[1].shapely_sub_rect, boundary_box))
              => PastedOver(0 .. canvas.w_px - 1, 0 .. canvas.h_px - 1)

\* the same statement of the backend copy alone, which does not clamp
C8_BackendCopyCoversPixelExtent == copy = "backend" => C8_TileCoversItsPixelExtent

(***************************************************************************)
(* Properties of the statistics.                                           *)
(***************************************************************************)
StatsWritten == pc = "split"

\* v is a * b / d exactly
IsQuotient(v, a, b, d) == MulDivMod(a, b, d) = [q |-> v, r |-> 0]

\* v is a * b / d rounded to a nearest integer
IsRoundedQuotient(v, a, b, d) ==
    LET qr == MulDivMod(a, b, d)
    IN  \/ v = qr.q /\ 2 * qr.r <= d
        \/ v = qr.q + 1 /\ 2 * qr.r >= d

\* C9 as stated: pixel_sum is the sum of all counts of the histogram and the
\* area of each of the 11 classes is exactly (count / pixel_sum) * total_area
\* when pixel_sum > 0; a class absent from the histogram has area 0.
C9_AreaIsExactShareOfAllCounts ==
    StatsWritten =>
        LET all == SumOver(hist, DOMAIN hist)
        IN  \A name \in ClassNameSet :
                IF CodeOf(name) \in DOMAIN hist
                THEN all > 0 =>
                        IsQuotient(areas[name], hist[CodeOf(name)], CORRECT_AREA, 10 * all)
                ELSE areas[name] = 0

\* C9 amended: pixel_sum is the sum of the counts of the class codes below
\* 11 (other codes are ignored) and the area of each of the 11 classes is
\* (count / pixel_sum) * total_area rounded to 5 decimals when pixel_sum > 0;
\* a class absent from the histogram has area 0.
C9_AreaIsRoundedShareOfClassCounts ==
    StatsWritten =>
        LET known == { c \in DOMAIN hist : c <= 10 }
            sum == SumOver(hist, known)
        IN  \A name \in ClassNameSet :
                IF CodeOf(name) \in DOMAIN hist
                THEN sum > 0 =>
                        IsRoundedQuotient(areas[name], hist[CodeOf(name)], CORRECT_AREA, 10 * sum)
                ELSE areas[name] = 0

C9_Witness ==
    /\ StatsWritten
    /\ CORRECT_AREA = 1000000
    /\ DOMAIN hist = {0, 1, MaxCode}
    /\ hist[0] = 1 /\ hist[1] = 2 /\ hist[MaxCode] = 10
    /\ areas["water"] = 33333
    /\ areas["trees"] = 66667
    /\ areas["natural_forest"] = 0

ExampleValues ==
    (hist = ExampleHist /\ CORRECT_AREA = 100000000) =>
        /\ stats.natural_forest_km2 = 1000000
        /\ stats.other_trees_km2 = 4000000
        /\ stats.forest_area_km2 = 5000000
        /\ stats.natural_forest_percentage = 2000000
        /\ stats.other_trees_percentage = 8000000

\* C10 as stated: forest_area_km2 = natural_forest_km2 + other_trees_km2 and,
\* whenever forest_area_km2 > 0, the two percentages are exactly
\* natural_forest_km2 / forest_area_km2 * 100 and other_trees_km2 /
\* forest_area_km2 * 100; the example gives 10.0, 40.0, 50.0, 20.0, 80.0.
C10_ForestPercentagesExact ==
    StatsWritten =>
        /\ stats.forest_area_km2 = stats.natural_forest_km2 + stats.other_trees_km2
        /\ stats.forest_area_km2 > 0 =>
              /\ IsQuotient(stats.natural_forest_percentage,
                            stats.natural_forest_km2, 10000000, stats.forest_area_km2)
              /\ IsQuotient(stats.other_trees_percentage,
                            stats.other_trees_km2, 10000000, stats.forest_area_km2)
        /\ ExampleValues

\* C10 amended: the same, each percentage being the quotient rounded to 5
\* decimals.
C10_ForestPercentagesRounded ==
    StatsWritten =>
        /\ stats.natural_forest_km2 = areas["natural_forest"]
        /\ stats.other_trees_km2 = areas["trees"]
        /\ stats.forest_area_km2 = stats.natural_forest_km2 + stats.other_trees_km2
        /\ stats.forest_area_km2 > 0 =>
              /\ IsRoundedQuotient(stats.natural_forest_percentage,
                                   stats.natural_forest_km2, 10000000, stats.forest_area_km2)
              /\ IsRoundedQuotient(stats.other_trees_percentage,
                                   stats.other_trees_km2, 10000000, stats.forest_area_km2)
        /\ ExampleValues

C10_Witness ==
    /\ StatsWritten
    /\ hist = ExampleHist
    /\ CORRECT_AREA = 100000000
    /\ stats.forest_area_km2 = 5000000
    /\ stats.natural_forest_percentage = 2000000

\* a state where the rounding of a forest percentage shows
C10_RoundingWitness ==
    /\ StatsWritten
    /\ stats.natural_forest_km2 = 25000
    /\ stats.other_trees_km2 = 50000
    /\ stats.natural_forest_percentage = 3333333
    /\ stats.other_trees_percentage = 6666667

(***************************************************************************)
(* Properties of a whole analysis request.                                 *)
(***************************************************************************)
RunDone == pc = "done"

\* N >= 1 tiles were planned and submitted and none of them was fetched
AllTilesFailed ==
    /\ Len(sub_rects) > 0
    /\ DOMAIN futures = 0 .. Len(sub_rects) - 1
    /\ FailedTiles = DOMAIN futures
    /\ \A i \in DOMAIN futures : futures[i].state = "harvested"

\* the program's words for a run without a tile to merge
NoImageryMessages == {"No results to merge.", "No valid sub-rectangle results to merge"}

\* C2: when every planned tile fails after its retries (K = N), the request
\* ends in an error response reporting that no imagery was merged; it is
\* never a success response and no image or statistics object is uploaded.
C2_AllFailedReportsNoImageryMerged ==
    (RunDone /\ AllTilesFailed) =>
        /\ response.status = "error"
        /\ response.message \in NoImageryMessages
        /\ uploaded = {}

\* what the request does end in when every tile failed: the ValueError of
\* s3.upload_file(None, ...) as a 500 response, nothing uploaded
AllFailedEndsInFilenameError ==
    (RunDone /\ AllTilesFailed) =>
        /\ image_file = "None"
        /\ response = ErrorResponse(500, FilenameMessage)
        /\ uploaded = {}

AllFailedRunEnded ==
    /\ RunDone
    /\ AllTilesFailed
    /\ Len(sub_rects) = 2
    /\ \A i \in DOMAIN futures : Len(futures[i].attempts) = max_retries

(***************************************************************************)
(* Properties of the statistics: zero cases.                               *)
(***************************************************************************)
NoClassPixels == SumOver(hist, { c \in DOMAIN hist : c <= 10 }) = 0

AllZero ==
    /\ \A name \in ClassNameSet : areas[name] = 0
    /\ stats.natural_forest_percentage = 0
    /\ stats.other_trees_percentage = 0
    /\ DOMAIN stats.land_cover_classes = {}

\* C11 as stated: with an empty histogram (pixel_sum = 0), with ground-truth
\* area 0 and with forest area 0 alike, every class area is 0, both forest
\* percentages are 0, land_cover_classes is empty, and nothing is divided by
\* zero.
C11_ZeroCasesAllGiveAllZeros ==
    StatsWritten =>
        /\ 0 \notin StatsDivisors(hist, CORRECT_AREA)
        /\ (NoClassPixels \/ CORRECT_AREA = 0 \/ stats.forest_area_km2 = 0) => AllZero

\* C11 amended: with an empty histogram (pixel_sum = 0) or ground-truth area
\* 0 every class area is 0, both forest percentages are 0 and
\* land_cover_classes is empty; with forest area 0 both forest percentages
\* are 0; nothing is divided by zero in any case.
C11_ZeroCasesGiveZeros ==
    StatsWritten =>
        /\ 0 \notin StatsDivisors(hist, CORRECT_AREA)
        /\ (NoClassPixels \/ CORRECT_AREA = 0) => AllZero
        /\ stats.forest_area_km2 = 0 =>
              /\ stats.natural_forest_percentage = 0
              /\ stats.other_trees_percentage = 0

C11_Witness ==
    /\ StatsWritten
    /\ hist = << >>
    /\ CORRECT_AREA = 1000000
    /\ AllZero
    /\ stats.total_area_km2 = 100000

(***************************************************************************)
(* Properties of the statistics: proportions.                              *)
(***************************************************************************)
\* the histogram with every count multiplied by k
Scaled(h, k) == [c \in DOMAIN h |-> k * h[c]]

Scales == 2 .. MaxScale

\* the report of the scaled histograms is the report written
SameReportWhenScaled ==
    \A k \in Scales :
        /\ Areas(Scaled(hist, k), CORRECT_AREA) = areas
        /\ Stats(Areas(Scaled(hist, k), CORRECT_AREA), CORRECT_AREA) = stats

\* C12 as stated: multiplying every count by the same positive integer
\* leaves every reported area and percentage unchanged, and total_area_km2
\* equals the supplied ground-truth area whatever the histogram is.
C12_ProportionsOnlyAndExactTotal ==
    StatsWritten =>
        /\ SameReportWhenScaled
        /\ 10 * stats.total_area_km2 = CORRECT_AREA

\* C12 amended: multiplying every count by the same positive integer leaves
\* every reported area and percentage unchanged, and total_area_km2 equals
\* the supplied ground-truth area rounded to 5 decimals whatever the
\* histogram is.
C12_ProportionsOnlyAndRoundedTotal ==
    StatsWritten =>
        /\ SameReportWhenScaled
        /\ IsRoundedQuotient(stats.total_area_km2, CORRECT_AREA, 1, 10)

C12_Witness ==
    /\ StatsWritten
    /\ DOMAIN hist = {0, 1, 10}
    /\ hist[0] = 1 /\ hist[1] = 2 /\ hist[10] = 10
    /\ CORRECT_AREA = 1234567
    /\ stats.total_area_km2 = 123457
    /\ areas["trees"] = 18993
    /\ Areas(Scaled(hist, MaxScale), CORRECT_AREA) = areas

(***************************************************************************)
(* Properties of the aborts of a request.                                  *)
(***************************************************************************)
Loaded == ~LoadBoundaryFails(doc)

\* the provider reports zero scenes: no Sentinel-2 image or no Dynamic World image
ZeroScenes == provider.s2_size = 0 \/ provider.dw_size = 0

\* no statistics query and no tile fetch was issued, nothing was produced
NothingQueried ==
    /\ pc \in {"request", "done"}
    /\ stats = NoStats
    /\ areas = NoAreas
    /\ sub_rects = << >>
    /\ futures = << >>
    /\ image_file = "pending"
    /\ uploaded = {}

UserVisibleAbort == response = ErrorResponse(400, CloudMessage(copy))

\* C13: when the provider reports zero scenes for the region and date range
\* the run aborts before any statistics query or tile fetch, and the request
\* ends in the 400 'try another date range' response, not in a 500.
C13_ZeroScenesAbortWith400 ==
    (Loaded /\ ZeroScenes) =>
        /\ NothingQueried
        /\ RunDone => UserVisibleAbort

C13_Witness ==
    /\ RunDone
    /\ doc.missing = {}
    /\ provider.s2_size = 0
    /\ provider.cloud_cover = 0
    /\ response.statusCode = 400
    /\ CORRECT_AREA = 100000000

ExcessiveCloud == provider.s2_size > 0 /\ provider.cloud_cover > cloud_threshold

\* C14: whenever the cloud cover of the best available scene exceeds the
\* cloud threshold the run aborts before any statistics query or tile fetch,
\* the request ends in the same 400 response as for zero scenes, and no
\* classification map is produced.
C14_ExcessiveCloudAborts ==
    (Loaded /\ ExcessiveCloud) =>
        /\ NothingQueried
        /\ RunDone => UserVisibleAbort

\* what the backend copy does with such a scene
BackendAbortsOnExcessiveCloud ==
    (copy = "backend" /\ Loaded /\ ExcessiveCloud) =>
        /\ NothingQueried
        /\ RunDone => UserVisibleAbort

\* the causes that abort a run at the level of the region or of the input
AbortCause ==
    \/ LoadBoundaryFails(doc)
    \/ (Loaded /\ (ZeroScenes \/ ExcessiveCloud))
    \/ raised = "EEException"
    \/ (pc \in {"merge", "exported", "done"} /\ AllTilesFailed)

StructuredError ==
    /\ response.status = "error"
    /\ response.statusCode \in {400, 500}

\* C15: a run aborted by a region-level or input-level failure (no imagery,
\* excessive cloud, malformed input, provider failure during the statistics
\* query, all tiles failed) ends in a structured error response with neither
\* the image nor the statistics uploaded; in every state an uploaded artifact
\* implies that both artifacts are uploaded and the response is a success.
C15_AbortsUploadNothing ==
    /\ (RunDone /\ AbortCause) => (StructuredError /\ uploaded = {})
    /\ uploaded # {} => (uploaded = {ImageKey, StatsKey} /\ response = SuccessResponse)

\* the aborts that do end as the claim says: malformed input, zero scenes,
\* a failed statistics query, all tiles failed
OtherAbortsUploadNothing ==
    (RunDone /\ (LoadBoundaryFails(doc) \/ (Loaded /\ ZeroScenes) \/ raised = "EEException"
                 \/ AllTilesFailed))
        => (StructuredError /\ uploaded = {})

\* C16: a boundary document lacking one of area, city_geometry, bbox_west,
\* bbox_south, bbox_east, bbox_north makes the run fatal with an error that
\* names a lacking field, and no statistics are computed from it.
C16_MissingFieldIsFatal ==
    doc.missing # {} =>
        /\ pc \in {"request", "raised", "done"}
        /\ stats = NoStats
        /\ areas = NoAreas
        /\ RunDone =>
              /\ StructuredError
              /\ \E k \in DOMAIN SubscriptedFields :
                    /\ SubscriptedFields[k] \in doc.missing
                    /\ response.message = KeyErrorMessage(SubscriptedFields[k])

\* the subscripted fields are reported as the claim says
MissingSubscriptedFieldIsFatal ==
    LoadBoundaryFails(doc) =>
        /\ pc \in {"request", "raised", "done"}
        /\ stats = NoStats
        /\ RunDone => response = ErrorResponse(500, KeyErrorMessage(KeyErrorField(doc)))

(***************************************************************************)
(* Properties of the caches.                                               *)
(***************************************************************************)
Cached(cache, key) == \E i \in DOMAIN cache : cache[i].key = key

Keys(cache) == { cache[i].key : i \in DOMAIN cache }

StoredValues(cache, key) == { cache[i].value : i \in { j \in DOMAIN cache : cache[j].key = key } }

\* a lookup of key that found it cached ran no body and returned the stored
\* result; one that did not ran the body once and stored what it returned
LookupRunsBodyOnceOnMiss(cache, cacheAfter, runs, runsAfter, key, returned) ==
    IF Cached(cache, key)
    THEN /\ runsAfter = runs
         /\ StoredValues(cache, key) = {returned}
         /\ StoredValues(cacheAfter, key) = {returned}
    ELSE /\ runsAfter = runs + 1
         /\ StoredValues(cacheAfter, key) = {returned}
         /\ \A k \in Keys(cache) : returned \notin StoredValues(cache, k)

\* C17: for any sequence of lookups, a cache miss performs the underlying
\* conversion or remote call exactly once, and a later lookup of a key that
\* is still cached returns the stored result without performing it again.
C17_MissRunsOnceHitRunsNothing ==
    [][ /\ last_lookup'.fn = "shapely_to_ee" =>
              LookupRunsBodyOnceOnMiss(geometry_cache, geometry_cache', conversions,
                                       conversions', last_lookup'.key, last_lookup'.value)
        /\ last_lookup'.fn = "get_protected_areas" =>
              /\ LookupRunsBodyOnceOnMiss(protected_cache, protected_cache', remote_calls,
                                          remote_calls', last_lookup'.key, last_lookup'.value)
              /\ Cached(protected_cache, last_lookup'.key) =>
                    (conversions' = conversions /\ geometry_cache' = geometry_cache)
      ]_vars

C17_Witness ==
    /\ last_lookup.fn = "get_protected_areas"
    /\ repeated
    /\ fresh = 3
    /\ last_lookup.key = ProtectedKey(0, Dates[1])
    /\ last_lookup.value = 1
    /\ remote_calls = 3
    /\ conversions = 3

\* C18: the key of the protected-area cache is (boundary geometry text,
\* year-month of the acquisition date): two lookups for the same boundary
\* with two acquisition dates of the same calendar month share one cache
\* entry and trigger one remote call.
C18_OneEntryPerBoundaryAndMonth ==
    /\ \A i, j \in DOMAIN protected_cache :
          ProtectedKeyByMonth(protected_cache[i].key[1], protected_cache[i].key[2])
            = ProtectedKeyByMonth(protected_cache[j].key[1], protected_cache[j].key[2])
          => i = j
    /\ (exercised = "get_protected_areas" /\ fresh <= protected_maxsize) =>
          remote_calls =
              Cardinality({ ProtectedKeyByMonth(protected_cache[i].key[1],
                                                protected_cache[i].key[2]) :
                            i \in DOMAIN protected_cache })

CacheSizesBounded ==
    /\ Len(geometry_cache) <= 128
    /\ Len(protected_cache) <= 32

\* the key whose last lookup is the oldest
LeastRecentlyUsed(cache) ==
    (CHOOSE e \in { cache[i] : i \in DOMAIN cache } :
        \A i \in DOMAIN cache : e.used <= cache[i].used).key

\* a miss at capacity replaces the least recently used key by the new one
MissAtCapacityEvictsLru(cache, cacheAfter, key, capacity) ==
    (Len(cache) = capacity /\ ~Cached(cache, key)) =>
        /\ Keys(cacheAfter) = (Keys(cache) \ {LeastRecentlyUsed(cache)}) \cup {key}
        /\ Len(cacheAfter) = capacity

\* C19: after any sequence of lookups the geometry cache holds at most 128
\* entries and the protected-area cache at most 32; a miss at capacity
\* evicts exactly one entry, the least recently used.
C19_BoundedCachesEvictLru ==
    [][ /\ CacheSizesBounded /\ CacheSizesBounded'
        /\ last_lookup'.fn = "shapely_to_ee" =>
              MissAtCapacityEvictsLru(geometry_cache, geometry_cache', last_lookup'.key, 128)
        /\ last_lookup'.fn = "get_protected_areas" =>
              MissAtCapacityEvictsLru(protected_cache, protected_cache', last_lookup'.key, 32)
      ]_vars

\* the first geometry was looked up again when the cache was full, and the
\* next miss evicted the second geometry instead
C19_Witness ==
    /\ exercised = "shapely_to_ee"
    /\ Len(geometry_cache) = 128
    /\ fresh = 129
    /\ repeated
    /\ Cached(geometry_cache, 0)
    /\ ~Cached(geometry_cache, 1)
    /\ conversions = 129

(***************************************************************************)
(* Properties of the worker pool.                                          *)
(***************************************************************************)
InProgress == { i \in DOMAIN futures : futures[i].state = "running" }

\* C20: in every reachable state the number of tiles whose fetch is in
\* progress is at most min(10, tile_count).
C20_AtMostTenInProgress ==
    /\ Cardinality(InProgress) <= 10
    /\ Cardinality(InProgress) <= Len(sub_rects)

C20_Witness ==
    /\ Len(sub_rects) > 10
    /\ Cardinality(InProgress) = 10
    /\ work_queue # << >>
    /\ \E i \in DOMAIN futures : futures[i].state = "queued"

(***************************************************************************)
(* Properties of the canvas and the fetch phase.                           *)
(***************************************************************************)
FetchPhaseOver ==
    /\ work_queue = << >>
    /\ \A i \in DOMAIN futures : futures[i].state = "harvested"

\* C21: the canvas is created and pasted into only after every dispatched
\* tile fetch has finished: a step that changes the canvas is a step of the
\* merge taken when no tile is queued, fetching or retrying, and a step of a
\* worker (a step that changes a future) leaves the canvas as it is.
C21_CanvasOnlyAfterFetchPhase ==
    [][canvas' # canvas => (pc = "merge" /\ FetchPhaseOver /\ futures' = futures)]_vars

\* a canvas pasted into after a fetch phase in which a tile was retried and
\* another one was given up
C21_Witness ==
    /\ canvas.pastes # << >>
    /\ \E i \in DOMAIN futures : futures[i].result = "raster" /\ Len(futures[i].attempts) > 1
    /\ \E i \in DOMAIN futures : futures[i].result = "None"

\* what process_sub_polygon ended with: a raster on the first pass that
\* succeeded, absence after max_retries failed passes, or its own exception
FinalOutcome(f) ==
    /\ f.state \in {"done", "harvested"}
    /\ \/ /\ f.result = "raster"
          /\ Len(f.attempts) \in 1 .. max_retries
          /\ f.attempts[Len(f.attempts)] = "ok"
       \/ /\ f.result = "None"
          /\ Len(f.attempts) = max_retries
          /\ \A k \in DOMAIN f.attempts : f.attempts[k] # "ok"
       \/ /\ f.result = "exception"
          /\ f.attempts = << >>

Dispatched(i) == pc = "fetching" /\ i \in DOMAIN futures

\* a step leaves the passes made for a tile as they were or adds one pass
RetryLoopGoesOn(i) ==
    (i \in DOMAIN futures /\ i \in DOMAIN futures') =>
        \/ futures'[i].attempts = futures[i].attempts
        \/ /\ Len(futures'[i].attempts) = Len(futures[i].attempts) + 1
           /\ futures[i].state = "running"

\* C22: under fair scheduling and terminating attempts every dispatched tile
\* eventually reaches a final outcome (a raster, or absence after at most
\* max_retries attempts) whatever the outcomes of the other tiles, no step
\* cuts a tile's retry loop short, and the coordinator eventually proceeds
\* to the merge step with every tile handed over.
C22_FetchPhaseTerminates ==
    /\ \A i \in TileIndexes :
          Dispatched(i) ~> (i \in DOMAIN futures /\ FinalOutcome(futures[i]))
    /\ (pc = "fetching") ~> (pc = "merge" /\ FetchPhaseOver)
    /\ [][\A i \in TileIndexes : RetryLoopGoesOn(i)]_vars

\* the merge step reached after a fetch phase in which one tile failed all
\* its attempts and another one succeeded on its last attempt
C22_Witness ==
    /\ pc = "merge"
    /\ FetchPhaseOver
    /\ \E i \in DOMAIN futures : futures[i].result = "None"
    /\ \E i \in DOMAIN futures :
          futures[i].result = "raster" /\ Len(futures[i].attempts) = max_retries

(***************************************************************************)
(* Properties of the order of the results.                                 *)
(***************************************************************************)
\* every ordering of the members of a sequence
RECURSIVE Orderings(_, _)
Orderings(s, picked) ==
    IF picked = DOMAIN s THEN { << >> }
    ELSE UNION { { <<s[k]>> \o rest : rest \in Orderings(s, picked \cup {k}) } :
                 k \in DOMAIN s \ picked }

\* the columns (rows) at which the image may change: the edges of the pastes
EdgeCols(pastes) ==
    ({0} \cup UNION { {pastes[k].x1, pastes[k].x2} : k \in DOMAIN pastes })
        \cap (0 .. canvas.w_px - 1)

EdgeRows(pastes) ==
    ({0} \cup UNION { {pastes[k].y1, pastes[k].y2} : k \in DOMAIN pastes })
        \cap (0 .. canvas.h_px - 1)

\* two sequences of pastes leave the same image: the image is constant
\* between neighbouring edges, so it is compared at the edges of both
SameImage(p, q) ==
    \A x \in EdgeCols(p) \cup EdgeCols(q), y \in EdgeRows(p) \cup EdgeRows(q) :
        PixelAfter(p, x, y) = PixelAfter(q, x, y)

PasteRectsOverlap(p, q) ==
    /\ Max2(p.x1, q.x1) < Min2(p.x2, q.x2)
    /\ Max2(p.y1, q.y1) < Min2(p.y2, q.y2)

\* C23: the merged image does not depend on the order of the results: the
\* pixel rectangles of two distinct tiles never overlap, and every ordering
\* of the result list gives the image the merge produced.
C23_MergeIsOrderIndependent ==
    Merged =>
        /\ \A j, k \in DOMAIN canvas.pastes :
              j # k => ~PasteRectsOverlap(canvas.pastes[j], canvas.pastes[k])
        /\ \A reordered \in Orderings(results, {}) :
              SameImage(canvas.pastes,
                        PasteAll(copy, boundary_box, CanvasSize(copy, boundary_box), reordered))

\* six tiles in two rows and three columns merged
C23_Witness ==
    /\ Merged
    /\ Len(results) = 6
    /\ Len(canvas.pastes) = 6
    /\ \E j, k \in DOMAIN canvas.pastes :
          canvas.pastes[j].x2 = canvas.pastes[k].x1 /\ canvas.pastes[j].y1 = canvas.pastes[k].y1

(***************************************************************************)
(* Properties of the size of the canvas.                                   *)
(***************************************************************************)
CapApplies(bb) == RawSize(bb).w_px > max_dim \/ RawSize(bb).h_px > max_dim

\* v = int(raw / factor) for factor = larger / max_dim
DividedByFactor(v, raw, larger) ==
    v * larger <= raw * max_dim /\ raw * max_dim < (v + 1) * larger

\* width and height are the uncapped width and height divided by one factor
SameFactor(bb) ==
    LET raw == RawSize(bb)
        larger == Max2(raw.w_px, raw.h_px)
    IN  /\ DividedByFactor(canvas.w_px, raw.w_px, larger)
        /\ DividedByFactor(canvas.h_px, raw.h_px, larger)

CanvasSized == Merged \/ (pc = "raised" /\ raised = "ZeroDivisionError")

\* C24: after sizing both dimensions of the canvas are at most 5000, and
\* when the cap applies width and height are the uncapped width and height
\* divided by the same factor.
C24_CanvasWithinMaxDimension ==
    CanvasSized =>
        /\ canvas.w_px <= 5000
        /\ canvas.h_px <= 5000
        /\ CapApplies(boundary_box) => SameFactor(boundary_box)

\* the same statement of the backend copy alone, which divides h_px
BackendCanvasWithinMaxDimension == copy = "backend" => C24_CanvasWithinMaxDimension

\* the backend copy sized a canvas larger than the maximum dimension
BackendCanvasCapped ==
    /\ copy = "backend"
    /\ Merged
    /\ CapApplies(boundary_box)
    /\ canvas.h_px = 5000
    /\ canvas.w_px < 5000

(***************************************************************************)
(* Properties of the boundary mask.                                        *)
(***************************************************************************)
\* the pixel column (row) of a longitude (latitude), clamped to the canvas
ClampedCol(lonNum, den) ==
    Max2(0, Min2(PxX(boundary_box, canvas, lonNum, den), canvas.w_px - 1))

ClampedRow(latNum, den) ==
    Max2(0, Min2(PxY(boundary_box, canvas, latNum, den), canvas.h_px - 1))

\* the pixel lies in the ring, filled from clamped corner to clamped corner
InFilledRing(ring, x, y) ==
    /\ ClampedCol(ring.minx, ring.xden) <= x /\ x <= ClampedCol(ring.maxx, ring.xden)
    /\ ClampedRow(ring.maxy, ring.yden) <= y /\ y <= ClampedRow(ring.miny, ring.yden)

InUnionOfExteriors(x, y) == \E part \in total_shapely_polygon : InFilledRing(part, x, y)

\* the columns (rows) next to the edges of the rings and of the canvas
ColsAtEdges ==
    UNION { { c - 1, c, c + 1 } :
            c \in {0, canvas.w_px - 1} \cup
                  UNION { { ClampedCol(r.minx, r.xden), ClampedCol(r.maxx, r.xden) } :
                          r \in total_shapely_polygon \cup interior_rings } }
        \cap (0 .. canvas.w_px - 1)

RowsAtEdges ==
    UNION { { c - 1, c, c + 1 } :
            c \in {0, canvas.h_px - 1} \cup
                  UNION { { ClampedRow(r.miny, r.yden), ClampedRow(r.maxy, r.yden) } :
                          r \in total_shapely_polygon \cup interior_rings } }
        \cap (0 .. canvas.h_px - 1)

\* C25: the mask is the union of the filled exterior rings of the parts of
\* the polygon, their corners clamped to the canvas: an output pixel outside
\* the union is black, a pixel inside it is the pixel of the mosaic, and so
\* is a pixel inside an interior ring (holes are not subtracted).
C25_OutputIsMosaicInsideExteriors ==
    Merged =>
        \A x \in ColsAtEdges, y \in RowsAtEdges :
            /\ ~InUnionOfExteriors(x, y) => composite(canvas, x, y) = black
            /\ InUnionOfExteriors(x, y) =>
                  composite(canvas, x, y) = PixelAfter(canvas.pastes, x, y)
            /\ (\E ring \in interior_rings : InFilledRing(ring, x, y)) =>
                  composite(canvas, x, y) = PixelAfter(canvas.pastes, x, y)

\* a polygon with a hole that covers a part of the canvas: a pixel of the
\* hole shows the tile, a pixel of the tile outside the polygon is black
C25_Witness ==
    /\ Merged
    /\ \E ring \in interior_rings : \E x \in ColsAtEdges, y \in RowsAtEdges :
          /\ InFilledRing(ring, x, y)
          /\ composite(canvas, x, y) \in 0 .. Len(sub_rects) - 1
    /\ \E x \in ColsAtEdges, y \in RowsAtEdges :
          /\ ~InUnionOfExteriors(x, y)
          /\ PixelAfter(canvas.pastes, x, y) \in 0 .. Len(sub_rects) - 1
          /\ composite(canvas, x, y) = black

(***************************************************************************)
(* Properties of a run whose plan is empty.                                *)
(***************************************************************************)
\* split_boundary_box returned, and it returned the empty list
PlanIsEmpty ==
    /\ stats # NoStats
    /\ pc \notin {"stats", "split"}
    /\ raised # "ZeroDivisionError"
    /\ sub_rects = << >>

\* C26: when the planner returns an empty tile list the coordinator creates
\* its worker pool with a size of at least 1 and completes without raising,
\* the result set is empty, and the run ends as a run whose tiles all
\* failed ends.
C26_EmptyPlanEndsAsAllFailed ==
    /\ pc = "pool" => PoolSize(Len(sub_rects)) >= 1
    /\ PlanIsEmpty => raised # "ValueError" \/ image_file = "None"
    /\ (PlanIsEmpty /\ RunDone) =>
          /\ results = << >>
          /\ image_file = "None"
          /\ response = ErrorResponse(500, FilenameMessage)

\* what the run does end in when the plan is empty: the ValueError of
\* ThreadPoolExecutor(max_workers=0) as a 500 response, the merge never called
EmptyPlanEndsInMaxWorkersError ==
    (PlanIsEmpty /\ RunDone) =>
        /\ raised = "ValueError"
        /\ image_file = "pending"
        /\ futures = << >>
        /\ response = ErrorResponse(500, MaxWorkersMessage)
        /\ uploaded = {}

EmptyPlanRunEnded == PlanIsEmpty /\ RunDone

====
